---- MODULE Spec2Model ----
(***************************************************************************)
(* Okta FastPass deployment toolkit: the analysis run                      *)
(* (find_app_users_no_device.py), the re-enrollment run                    *)
(* (okta_enrollment_handler.py) and the functions they call                *)
(* (okta_app_functions.py, okta_device_functions.py,                       *)
(* okta_user_functions.py, send_o365_email.py).                            *)
(*                                                                         *)
(* Python values are modelled as follows: a list is a sequence, a dict is  *)
(* the sequence of its (key, value) items in insertion order, a str that   *)
(* is only compared is a TLA+ string.  sys.exit(1) ends the run with       *)
(* status "exited" and exit_code 1; an exception nothing catches ends it   *)
(* with status "crashed".                                                  *)
(***************************************************************************)
EXTENDS Integers, Sequences, FiniteSets, TLC

VARIABLES
    pc,            \* the statement the run is at
    status,        \* "running" | "done" | "exited" (sys.exit) | "crashed" (uncaught exception)
    exit_code,     \* the process exit status once the run has ended, else -1
    endpoint,      \* the chain of pages the remote collection being fetched serves
    next_page,     \* the page that next_page_url designates (1: the first request)
    result_list,   \* device_list / user_list / app_list accumulated by the paged fetcher
    requests_log,  \* every page request issued so far, in order, with its outcome
    returned,      \* TRUE once the outermost call of the paged fetcher has returned
    ret,           \* the statement the caller of the paged fetcher goes on with
    app_list,      \* the list of targeted application dicts the analysis stages work on
    unique_users,  \* the dict generate_unique_users_for_reenrollment returned
    USER_ID_MAPPING,      \* okta_user_functions.USER_ID_MAPPING: user id -> user dict
    USER_DEVICE_MAPPING,  \* the device-ownership index: user id -> the user's devices
    app_idx,       \* the application a per-application loop of the analysis is at
    item_idx,      \* the device or member the loop inside it is at (0: at the loop head)
    factor_fetch_log,     \* every factor list fetched by the analysis, with app and user
    temp_list,     \* what loop_get_all_device_users has collected: a device or None per device
    targeted_apps,   \* the DataFrame loaded from okta_apps.csv
    main_USER_ID_MAPPING, \* USER_ID_MAPPING of find_app_users_no_device.py (the driver's global)
    profile_fetch_log,    \* the ids fetch_user_profile was called with, in order
    okta_device_users_json,   \* the file okta_device_users.json
    useCachedData,            \* the flag execute_enrollment_verification_workflow is called with
    user_device_mapping_json, \* the file user_device_mapping.json
    user_enrollment_status_list,  \* the rows the verification has built
    results_csv,   \* the verification result file
    run_no,        \* 1 in the first verification run, 2 in the run that follows it
    previous_status_list,     \* user_enrollment_status_list of the first run
    user_device_mapping_obj,  \* the local of that name: None or the index in use
    roster_csv,    \* the rows of the roster file the verification was started on
    args,          \* the command line of okta_enrollment_handler.py as argparse returns it
    USER_CSV_PATH, \* the environment variable of that name: "unset" or a path
    ATTACHMENT_FILEPATH,  \* the environment variable of that name: "unset" or a path
    OAUTH_TOKEN,   \* the global of send_o365_email.py: {} or the token response held
    current_time,  \* int(datetime.now().timestamp()), counted from the start of the run
    oauth_requests,  \* the number of token requests sent to MS_OAUTH_TOKEN_URL
    template,      \* the file ENROLLMENT_EMAIL_TEMPLATE_PATH names: "exists" | "missing" | "unset"
    users,         \* the roster execute_reenrollment_workflow was given
    user_idx,      \* the roster row the per-user loop is at
    user,          \* the Okta user dict of that row, with the fields the stages attach
    factor_idx,    \* the place of the unenroll loop in userPushFactorList
    new_factor_information,  \* what enroll_new_push_factor returned for that row
    call_log,      \* the remote calls issued for that row, in order
    processed      \* one record per row the loop has finished

pagedVars == <<endpoint, next_page, result_list, requests_log, returned, ret>>
analysisIoVars == <<temp_list, targeted_apps, main_USER_ID_MAPPING, profile_fetch_log,
                    okta_device_users_json>>
analysisRunVars == <<USER_ID_MAPPING, USER_DEVICE_MAPPING, app_idx, item_idx, factor_fetch_log,
                     analysisIoVars>>
analysisVars == <<app_list, unique_users, analysisRunVars>>
reenrollVars == <<template, users, user_idx, user, factor_idx, new_factor_information,
                  call_log, processed>>
verifyVars == <<useCachedData, user_device_mapping_json, user_enrollment_status_list,
                results_csv, run_no, previous_status_list, user_device_mapping_obj,
                roster_csv>>
driverVars == <<args, USER_CSV_PATH, ATTACHMENT_FILEPATH>>
notifierVars == <<OAUTH_TOKEN, current_time, oauth_requests>>
vars == <<pc, status, exit_code, pagedVars, analysisVars, reenrollVars, verifyVars, driverVars,
          notifierVars>>

-----------------------------------------------------------------------------
(* Bounds of the model *)

\* the longest chain of pages a remote collection serves
MaxPages == 3

\* the most records one page carries
MaxPageLen == 2

\* the most applications in the list handed to the aggregator
MaxApps == 2

\* the most users in one application's usersTargetedForReEnrollment
MaxTargets == 2

\* the most rows of the re-enrollment roster
MaxRoster == 2

\* the last second of the clock
MaxTime == 6

\* the most mails sent by direct calls of the notifier
MaxMails == 2

-----------------------------------------------------------------------------
(* Ending the run *)

\* a mutant of SysExit: the error is logged and the run goes on
SysExitOnlyLogs ==
    /\ status' = status
    /\ exit_code' = exit_code

\* sys.exit(1): the run stops with a non-zero exit status
SysExit ==
    /\ status' = "exited"
    /\ exit_code' = 1

\* an exception no handler catches: the interpreter prints the traceback and
\* stops with exit status 1
Uncaught ==
    /\ status' = "crashed"
    /\ exit_code' = 1

\* the user dict before any stage has filled it
NoUser ==
    [ id |-> "", profile |-> <<>> ]

\* a file that is not there; a file with a JSON text
NoFile == [exists |-> FALSE, text |-> <<>>]
FileWith(text) == [exists |-> TRUE, text |-> text]

\* Python's None and a list, for a field that holds one or the other; a
\* dict that may be None is held the same way, as the list of its items
PyNone == [is_none |-> TRUE, list |-> <<>>]
PyList(l) == [is_none |-> FALSE, list |-> l]

\* argparse's result for a command line: the path and the date are "unset"
\* when the flag is not given
Args(path, notification, verifyenrollment, usecacheddevices, date, example) ==
    [ path |-> path, notification |-> notification, verifyenrollment |-> verifyenrollment,
      usecacheddevices |-> usecacheddevices, date |-> date, example |-> example ]

\* the script was not started from its command line
DriverIdle ==
    /\ args = Args("unset", FALSE, FALSE, FALSE, "unset", FALSE)
    /\ USER_CSV_PATH = "unset"

\* send_o365_email.py line 15: no token is held when the module is loaded
NotifierIdle ==
    /\ OAUTH_TOKEN = <<>>
    /\ current_time = 0
    /\ oauth_requests = 0

\* the verification workflow is not running
VerifyIdle ==
    /\ useCachedData = FALSE
    /\ user_device_mapping_json = NoFile
    /\ user_enrollment_status_list = <<>>
    /\ results_csv = NoFile
    /\ run_no = 1
    /\ previous_status_list = <<>>
    /\ user_device_mapping_obj = PyNone
    /\ roster_csv = <<>>

\* the input and output of the analysis stages, before the run
AnalysisIoIdle ==
    /\ temp_list = <<>>
    /\ targeted_apps = [columns |-> <<>>, rows |-> <<>>]
    /\ main_USER_ID_MAPPING = <<>>
    /\ profile_fetch_log = <<>>
    /\ okta_device_users_json = NoFile

\* the stages of the analysis run before the aggregator are not running
AnalysisIdle ==
    /\ ret = "return"
    /\ USER_ID_MAPPING = <<>>
    /\ USER_DEVICE_MAPPING = <<>>
    /\ app_idx = 1
    /\ item_idx = 0
    /\ factor_fetch_log = <<>>
    /\ AnalysisIoIdle
    /\ VerifyIdle
    /\ DriverIdle
    /\ NotifierIdle

\* the re-enrollment workflow is not running
ReenrollIdle ==
    /\ template = "exists"
    /\ users = <<>>
    /\ user_idx = 1
    /\ user = NoUser
    /\ factor_idx = 1
    /\ new_factor_information = "unset"
    /\ call_log = <<>>
    /\ processed = <<>>

-----------------------------------------------------------------------------
(* The paged fetchers: fetch_devices, fetch_users, fetch_all_applications, *)
(* fetch_users_for_app.  One action is one call of the function up to its   *)
(* recursive call: one GET, the handling of its failure, the reading of the *)
(* link header.                                                             *)

Fetchers == {"fetch_devices", "fetch_users", "fetch_all_applications", "fetch_users_for_app"}

\* what one GET can come to: a 2xx answer with a list body, a non-2xx status
\* (raise_for_status), a network error, a body that is not JSON, a 2xx body
\* that is an object with an "error" field
RequestOutcomes == {"ok", "http_error", "network_error", "malformed_body", "error_field"}

\* The response's headers as far as the fetchers read them: no link header at
\* all, or one header whose name is spelled `name` and whose value lists the
\* relations `rels` in order, as in
\*     <https://..>; rel="self", <https://..after=x>; rel="next"
NoHeader == [name |-> "none", rels |-> <<>>]
OktaSelfNext == [name |-> "link", rels |-> <<"self", "next">>]
OktaSelfOnly == [name |-> "link", rels |-> <<"self">>]

\* link headers that announce a next page
NextHeaders ==
    { OktaSelfNext,
      [name |-> "link", rels |-> <<"next", "self">>],
      [name |-> "link", rels |-> <<"next">>],
      [name |-> "Link", rels |-> <<"self", "next">>] }

\* headers of a page after which the collection ends
TerminalHeaders == { NoHeader, OktaSelfOnly }

\* dict(response.headers)["link"]: the plain dict keeps the header's name as
\* the server spelled it, and any other spelling raises KeyError
HasLinkKey(h) == h.name = "link"

\* ' rel="next"' in dict(response.headers)["link"]
ContainsRelNext(h) == \E i \in 1..Len(h.rels) : h.rels[i] = "next"

\* re.search(r'<.*?;\srel="self",\s<(.*?)>;\srel="next"$', link): the value
\* must end with a rel="next" entry and hold a rel="self" entry before it
RegexMatch(h) ==
    /\ Len(h.rels) >= 2
    /\ h.rels[Len(h.rels)] = "next"
    /\ \E i \in 1..(Len(h.rels) - 1) : h.rels[i] = "self"

\* the fetcher recurses into the next page
FollowsNext(h) == HasLinkKey(h) /\ ContainsRelNext(h) /\ RegexMatch(h)

\* the records of page i of a collection: <<i, 1>>, .., <<i, n>>
PageData(i, n) == [k \in 1..n |-> <<i, k>>]

\* what page i of a collection of n pages can be: every page but the last
\* announces a next page
PagesAt(i, n) ==
    [ data : {PageData(i, l) : l \in 1..MaxPageLen},
      headers : IF i < n THEN NextHeaders ELSE TerminalHeaders ]

\* the first k pages of the chains of n pages
RECURSIVE ChainsUpTo(_, _)
ChainsUpTo(k, n) ==
    IF k = 0 THEN { <<>> }
    ELSE { Append(c, p) : c \in ChainsUpTo(k - 1, n), p \in PagesAt(k, n) }

\* the chains of n pages
ChainsOfLen(n) == ChainsUpTo(n, n)

Chains == UNION { ChainsOfLen(n) : n \in 1..MaxPages }

\* the shared body of the four fetchers
PagedRequest(f) ==
    /\ status = "running"
    /\ pc = f
    /\ \E outcome \in RequestOutcomes :
        /\ requests_log' = Append(requests_log,
                                  [fetcher |-> f, page |-> next_page, outcome |-> outcome])
        /\ IF outcome # "ok"
           THEN \* except RequestException / except Exception: sys.exit(1)
                /\ SysExit
                /\ UNCHANGED <<pc, next_page, result_list, returned>>
           ELSE /\ result_list' = result_list \o endpoint[next_page].data
                /\ IF FollowsNext(endpoint[next_page].headers)
                   THEN /\ next_page' = next_page + 1
                        /\ UNCHANGED <<pc, returned, status, exit_code>>
                   ELSE /\ returned' = TRUE
                        /\ pc' = ret
                        /\ UNCHANGED <<next_page, status, exit_code>>
    /\ UNCHANGED <<endpoint, ret, analysisVars, reenrollVars, verifyVars, driverVars, notifierVars>>

fetch_devices == PagedRequest("fetch_devices")

fetch_users == PagedRequest("fetch_users")

fetch_all_applications == PagedRequest("fetch_all_applications")

fetch_users_for_app == PagedRequest("fetch_users_for_app")

\* one fetcher called on one remote collection
InitPaged ==
    /\ pc \in Fetchers
    /\ status = "running"
    /\ exit_code = -1
    /\ endpoint \in Chains
    /\ next_page = 1
    /\ result_list = <<>>
    /\ requests_log = <<>>
    /\ returned = FALSE
    /\ app_list = <<>>
    /\ unique_users = <<>>
    /\ AnalysisIdle
    /\ ATTACHMENT_FILEPATH = "unset"
    /\ ReenrollIdle

NextPaged ==
    \/ fetch_devices
    \/ fetch_users
    \/ fetch_all_applications
    \/ fetch_users_for_app

SpecPaged == InitPaged /\ [][NextPaged]_vars

-----------------------------------------------------------------------------
(* Python values *)

\* a str that the code scans is the sequence of its characters
Str_lastName == <<"l", "a", "s", "t", "N", "a", "m", "e">>
Str_space == <<" ">>

\* needle in s
StrContains(needle, s) ==
    \E i \in 0..(Len(s) - Len(needle)) :
        \A k \in 1..Len(needle) : s[i + k] = needle[k]

\* key in d
DictHas(d, key) == \E i \in 1..Len(d) : d[i][1] = key

\* d[key], for a key of d
DictGet(d, key) == d[CHOOSE i \in 1..Len(d) : d[i][1] = key][2]

\* d[key] = value, d.update({key: value}): a new key goes last, a key of d
\* keeps its place
DictSet(d, key, value) ==
    IF DictHas(d, key)
    THEN [i \in 1..Len(d) |-> IF d[i][1] = key THEN <<key, value>> ELSE d[i]]
    ELSE Append(d, <<key, value>>)

\* d.update(fields) for a dict held as a record: the fields are added or
\* overwritten, the other keys stay
DictUpdate(d, fields) == fields @@ d

\* the keys of d
DictKeys(d) == { d[i][1] : i \in 1..Len(d) }

\* the elements of a list
Range(s) == { s[i] : i \in 1..Len(s) }

-----------------------------------------------------------------------------
(* The aggregator: generate_unique_users_for_reenrollment *)

\* the profile lookups of one loop body that raise KeyError: the email is read
\* unconditionally, the lastName whenever the else branch of line 181 is taken
TargetRaisesKeyError(target_user) ==
    LET profile == target_user.profile IN
    \/ ~DictHas(profile, "email")
    \/ /\ ~DictHas(profile, "displayName")
       /\ DictHas(profile, "firstName")
       /\ StrContains(Str_lastName, DictGet(profile, "email"))
       /\ ~DictHas(profile, "lastName")

\* lines 169-172
UserNameOf(profile) ==
    IF DictHas(profile, "login") THEN DictGet(profile, "login") ELSE DictGet(profile, "email")

\* lines 176-181: the elif tests "lastName" against the text of the email
UserFullNameOf(profile) ==
    IF DictHas(profile, "displayName")
    THEN DictGet(profile, "displayName")
    ELSE IF \/ ~DictHas(profile, "firstName")
            \/ ~StrContains(Str_lastName, DictGet(profile, "email"))
         THEN UserNameOf(profile)
         ELSE DictGet(profile, "firstName") \o Str_space \o DictGet(profile, "lastName")

\* a mutant of ProcessTarget: a user seen again has its appsInScope restarted
ProcessTargetRestarts(unique_users_, app_name, target_user) ==
    DictSet(unique_users_, target_user.id,
            [ userId |-> target_user.id,
              userName |-> UserNameOf(target_user.profile),
              userFullName |-> UserFullNameOf(target_user.profile),
              userEmail |-> DictGet(target_user.profile, "email"),
              oktaVerifyExistingFactor |-> target_user.userPushFactorExists,
              appsInScope |-> <<app_name>> ])

\* a mutant of ProcessTarget: a user seen again is skipped
ProcessTargetKeepsFirst(unique_users_, app_name, target_user) ==
    IF DictHas(unique_users_, target_user.id)
    THEN unique_users_
    ELSE DictSet(unique_users_, target_user.id,
                 [ userId |-> target_user.id,
                   userName |-> UserNameOf(target_user.profile),
                   userFullName |-> UserFullNameOf(target_user.profile),
                   userEmail |-> DictGet(target_user.profile, "email"),
                   oktaVerifyExistingFactor |-> target_user.userPushFactorExists,
                   appsInScope |-> <<app_name>> ])

\* lines 164-197: one target user of one application
ProcessTarget(unique_users_, app_name, target_user) ==
    LET userId == target_user.id IN
    IF DictHas(unique_users_, userId)
    THEN DictSet(unique_users_, userId,
                 [DictGet(unique_users_, userId) EXCEPT !.appsInScope = Append(@, app_name)])
    ELSE DictSet(unique_users_, userId,
                 [ userId |-> userId,
                   userName |-> UserNameOf(target_user.profile),
                   userFullName |-> UserFullNameOf(target_user.profile),
                   userEmail |-> DictGet(target_user.profile, "email"),
                   oktaVerifyExistingFactor |-> target_user.userPushFactorExists,
                   appsInScope |-> <<app_name>> ])

\* lines 162-197: the inner loop, from target k of the application on
RECURSIVE ProcessTargets(_, _, _, _)
ProcessTargets(unique_users_, app_name, targets, k) ==
    IF k > Len(targets)
    THEN unique_users_
    ELSE ProcessTargets(ProcessTarget(unique_users_, app_name, targets[k]),
                        app_name, targets, k + 1)

\* lines 160-197: the outer loop, from application a on
RECURSIVE ProcessApps(_, _, _)
ProcessApps(unique_users_, apps, a) ==
    IF a > Len(apps)
    THEN unique_users_
    ELSE ProcessApps(ProcessTargets(unique_users_, apps[a].name,
                                    apps[a].usersTargetedForReEnrollment, 1),
                     apps, a + 1)

\* the dict the function returns when no lookup raises
GenerateUniqueUsers(apps) == ProcessApps(<<>>, apps, 1)

\* some lookup of the run over apps raises KeyError
GenerateRaises(apps) ==
    \E a \in 1..Len(apps) :
        \E k \in 1..Len(apps[a].usersTargetedForReEnrollment) :
            TargetRaisesKeyError(apps[a].usersTargetedForReEnrollment[k])

\* lines 317-319 of the driver: the roster is built, written and the run ends
generate_unique_users_for_reenrollment ==
    /\ status = "running"
    /\ pc = "generate_unique_users_for_reenrollment"
    /\ IF GenerateRaises(app_list)
       THEN /\ Uncaught
            /\ UNCHANGED <<pc, unique_users>>
       ELSE /\ unique_users' = GenerateUniqueUsers(app_list)
            /\ status' = "done"
            /\ exit_code' = 0
            /\ pc' = "done"
    /\ UNCHANGED <<pagedVars, app_list, analysisRunVars, reenrollVars, verifyVars, driverVars, notifierVars>>

-----------------------------------------------------------------------------
(* Sample directory: the users, factors and profiles the inputs are drawn  *)
(* from                                                                    *)

Str_push == <<"p", "u", "s", "h">>
Str_sms == <<"s", "m", "s">>
Str_totp == <<"t", "o", "k", "e", "n", ":", "s", "o", "f", "t", "w", "a", "r", "e", ":", "t", "o", "t", "p">>

\* enrolled factors as GET /api/v1/users/{id}/factors lists them
Factor_push1 == [id |-> "opf1", factorType |-> Str_push,
                 profile |-> << <<"name", "phone">>, <<"keys", "jwk">> >>]
Factor_push2 == [id |-> "opf2", factorType |-> Str_push,
                 profile |-> << <<"name", "tablet">> >>]
Factor_push3 == [id |-> "opf3", factorType |-> Str_push,
                 profile |-> << <<"name", "watch">>, <<"keys", "jwk">> >>]
Str_signed_nonce == <<"s", "i", "g", "n", "e", "d", "_", "n", "o", "n", "c", "e">>

\* a factor that is not of a push type and carries keys in its profile
Factor_nonce == [id |-> "fpf1", factorType |-> Str_signed_nonce,
                 profile |-> << <<"name", "laptop">>, <<"keys", "jwk">> >>]
Factor_sms == [id |-> "sms1", factorType |-> Str_sms,
               profile |-> << <<"phoneNumber", "+1">> >>]
Factor_totp == [id |-> "ost1", factorType |-> Str_totp,
                profile |-> << <<"credentialId", "u">> >>]

\* profiles: with every name field, without displayName, with the email only
Profile_u1 == << <<"login", <<"u", "1">> >>, <<"email", <<"u", "1", "@", "x">> >>,
                 <<"displayName", <<"U", "n", "a">> >>,
                 <<"firstName", <<"U">> >>, <<"lastName", <<"N">> >> >>
Profile_u2 == << <<"login", <<"u", "2">> >>, <<"email", <<"u", "2", "@", "x">> >>,
                 <<"firstName", <<"D">> >>, <<"lastName", <<"O">> >> >>
Profile_u3 == << <<"email", <<"u", "3", "@", "x">> >> >>

\* a user dict as find_user_push_factor leaves it
UserWithFactors(id, profile, factors, exists, push_list) ==
    [ id |-> id, profile |-> profile, userPushFactorExists |-> exists,
      userPushFactorList |-> push_list, allUserFactors |-> factors ]

\* the profile of u1 as a later request serves it, after a change of its names
Profile_u1_renamed ==
    << <<"login", <<"u", "1", "b">> >>, <<"email", <<"u", "1", "b", "@", "x">> >>,
       <<"displayName", <<"U", "n", "o">> >> >>

TargetSamples ==
    { UserWithFactors("u1", Profile_u1, <<Factor_push2>>, TRUE, <<Factor_push2>>),
      UserWithFactors("u2", Profile_u2, <<Factor_sms, Factor_push2>>, TRUE, <<Factor_push2>>) }

\* the targets of application B: u1 is listed there under its changed profile
TargetSamplesRenamed ==
    { UserWithFactors("u1", Profile_u1_renamed, <<Factor_push2>>, TRUE, <<Factor_push2>>),
      UserWithFactors("u2", Profile_u2, <<Factor_sms, Factor_push2>>, TRUE, <<Factor_push2>>) }

\* the sequences over S of length at most n
SeqsUpTo(S, n) == UNION { [1..k -> S] : k \in 0..n }

\* application dicts as find_users_needing_reenrollment hands them on
AppDict(name, id, members, no_devices, targeted) ==
    [ name |-> name, id |-> id, users |-> members,
      usersNoRegisteredDevices |-> no_devices,
      usersTargetedForReEnrollment |-> targeted ]

DedupeApps ==
    { AppDict("A", "A", t, t, t) : t \in SeqsUpTo(TargetSamples, MaxTargets) }
    \cup { AppDict("B", "B", t, t, t) : t \in SeqsUpTo(TargetSamplesRenamed, MaxTargets) }

\* the aggregator called on any list of applications
InitDedupe ==
    /\ pc = "generate_unique_users_for_reenrollment"
    /\ status = "running"
    /\ exit_code = -1
    /\ endpoint = <<>>
    /\ next_page = 1
    /\ result_list = <<>>
    /\ requests_log = <<>>
    /\ returned = FALSE
    /\ app_list \in SeqsUpTo(DedupeApps, MaxApps)
    /\ unique_users = <<>>
    /\ AnalysisIdle
    /\ ATTACHMENT_FILEPATH = "unset"
    /\ ReenrollIdle

NextDedupe == generate_unique_users_for_reenrollment

SpecDedupe == InitDedupe /\ [][NextDedupe]_vars

-----------------------------------------------------------------------------
(* The factor inspector: fetch_user_factors, find_user_push_factor *)

\* what GET /api/v1/users/{id}/factors can come to: a list, HTTP 404, another
\* HTTP error status, a timeout, a transport error
FactorsOutcomes == {"ok", "http_404", "http_error", "timeout", "connection_error"}

\* the factor lists the provider answers with
FactorResponses ==
    { <<>>,
      <<Factor_sms, Factor_totp>>,
      <<Factor_push1, Factor_sms, Factor_push2>>,
      <<Factor_push1, Factor_push2, Factor_push3>>,
      <<Factor_nonce, Factor_push1>> }

\* a mutant of FactorsFetchReturns: HTTP 404 ends the run like any other error
FactorsFetchReturnsBodyOnly(outcome) == outcome = "ok"

\* fetch_user_factors returns a list: the body, or [] on HTTP 404
FactorsFetchReturns(outcome) == outcome \in {"ok", "http_404"}

\* the list fetch_user_factors returns
FetchedFactors(outcome, body) == IF outcome = "ok" THEN body ELSE <<>>

\* d.pop(key)
DictRemove(d, key) == SelectSeq(d, LAMBDA kv : kv[1] # key)

\* line 329: "push" in factor["factorType"]
IsPushFactor(factor) == StrContains(Str_push, factor.factorType)

\* lines 338-339: the keys are popped from the factor dict itself, which
\* user_factors (allUserFactors) holds too
StripKeys(factor) ==
    IF DictHas(factor.profile, "keys")
    THEN [factor EXCEPT !.profile = DictRemove(@, "keys")]
    ELSE factor

\* a mutant of ClassifyPushFactors: only the first factor is looked at
ClassifyFirstFactorOnly(user_, user_factors) ==
    LET push == IF Len(user_factors) > 0 /\ IsPushFactor(user_factors[1])
                THEN <<StripKeys(user_factors[1])>> ELSE <<>>
    IN DictUpdate(user_, [ userPushFactorExists |-> Len(push) > 0,
                           userPushFactorList |-> push,
                           allUserFactors |-> user_factors ])

\* lines 319-357: the fields find_user_push_factor attaches to the user
ClassifyPushFactors(user_, user_factors) ==
    LET all == [i \in 1..Len(user_factors) |->
                    IF IsPushFactor(user_factors[i])
                    THEN StripKeys(user_factors[i])
                    ELSE user_factors[i]]
        push == SelectSeq(all, IsPushFactor)
    IN DictUpdate(user_, [ userPushFactorExists |-> Len(push) > 0,
                           userPushFactorList |-> push,
                           allUserFactors |-> all ])

-----------------------------------------------------------------------------
(* The re-enrollment run: execute_reenrollment_workflow and its stages *)

Str_at_siteone == <<"@", "s", "i", "t", "e", "o", "n", "e", ".", "c", "o", "m">>
Str_at_example == <<"@", "e", "x", "a", "m", "p", "l", "e", ".", "c", "o", "m">>

LowerLetters == <<"a", "b", "c", "d", "e", "f", "g", "h", "i", "j", "k", "l", "m",
                  "n", "o", "p", "q", "r", "s", "t", "u", "v", "w", "x", "y", "z">>
UpperLetters == <<"A", "B", "C", "D", "E", "F", "G", "H", "I", "J", "K", "L", "M",
                  "N", "O", "P", "Q", "R", "S", "T", "U", "V", "W", "X", "Y", "Z">>

\* c.upper() of one character
UpperChar(c) ==
    IF \E i \in 1..Len(LowerLetters) : LowerLetters[i] = c
    THEN UpperLetters[CHOOSE i \in 1..Len(LowerLetters) : LowerLetters[i] = c]
    ELSE c

\* line 168: email[:2].upper() + email[2:]
UpperFirstTwo(email) ==
    [i \in 1..Len(email) |-> IF i <= 2 THEN UpperChar(email[i]) ELSE email[i]]

\* line 161: re.match(r".*@siteone\.com", email), which is not anchored at the end
EmailMatchesDomain(email) == StrContains(Str_at_siteone, email)

\* the users the provider holds, as GET /api/v1/users?filter=profile.email eq ..
\* finds them: the comparison is by the exact text
OktaDirectory ==
    { [ id |-> "00u1",
        profile |-> << <<"login", <<"a", "b">> >>,
                       <<"email", <<"A", "B">> \o Str_at_siteone>> >> ],
      [ id |-> "00u2",
        profile |-> << <<"login", <<"t", "o">> >>,
                       <<"email", <<"T", "O", "b", "a", "r">> \o Str_at_siteone>> >> ] }

\* the users whose profile email is the queried text
DirectoryMatches(query) == { u \in OktaDirectory : DictGet(u.profile, "email") = query }

\* roster rows: two users of the directory, an address of another domain, an
\* address the directory does not hold
RosterRows ==
    { [userEmail |-> <<"a", "b">> \o Str_at_siteone],
      [userEmail |-> <<"t", "o", "b", "a", "r">> \o Str_at_siteone],
      [userEmail |-> <<"a", "b">> \o Str_at_example],
      [userEmail |-> <<"x", "y">> \o Str_at_siteone] }

\* what the user lookup can come to
UserLookupOutcomes == {"ok", "http_error", "timeout", "connection_error", "malformed_body"}

\* what an unenroll or an enroll call can come to: a 2xx answer, a non-2xx
\* status (HTTPError), a timeout (Timeout), any other request or connection
\* error (a RequestException that is neither)
CallOutcomes == {"ok", "http_error", "timeout", "connection_error"}

\* what the delivery of the email can come to
SendOutcomes == {"ok", "fail"}

\* what os.getenv('ATTACHMENT_FILEPATH') can give: None, or a path
AttachmentPaths == {"unset", "./documents/guide.pdf"}

\* send_o365_email.py lines 160-161: load_file_attachment splits the path
\* before its try block; path.split on None is an AttributeError that
\* nothing catches
AttachmentPathRaises(path) == path = "unset"

\* the loop of lines 230-244 moves to the next row, or the function returns
\* and the script ends
NextRow ==
    /\ user_idx' = user_idx + 1
    /\ IF user_idx + 1 > Len(users)
       THEN /\ pc' = "done"
            /\ status' = "done"
            /\ exit_code' = 0
       ELSE /\ pc' = "fetch_user"
            /\ UNCHANGED <<status, exit_code>>

\* a mutant of PathExists: the path is taken to exist
PathAssumedThere(file) == TRUE

\* os.path.exists(path) for a path that is a str
PathExists(file) == file = "exists"

\* lines 216-229: the template path is checked before the loop
execute_reenrollment_workflow ==
    /\ status = "running"
    /\ pc = "execute_reenrollment_workflow"
    /\ IF template = "unset"
       THEN \* os.path.exists(None) raises TypeError, which line 224 does not catch
            /\ Uncaught
            /\ UNCHANGED pc
       ELSE IF ~PathExists(template)
       THEN /\ SysExit
            /\ UNCHANGED pc
       ELSE IF Len(users) = 0
       THEN /\ pc' = "done"
            /\ status' = "done"
            /\ exit_code' = 0
       ELSE /\ pc' = "fetch_user"
            /\ UNCHANGED <<status, exit_code>>
    /\ UNCHANGED <<pagedVars, analysisVars, reenrollVars, verifyVars, driverVars, notifierVars>>

\* line 234, or line 275 of the notification workflow, and fetch_user
\* (lines 159-210)
fetch_user ==
    /\ status = "running"
    /\ pc = "fetch_user"
    /\ LET email == users[user_idx].userEmail
           query == UpperFirstTwo(email)
       IN IF ~EmailMatchesDomain(email)
          THEN \* ValueError, line 190: sys.exit(1) before any request
               /\ SysExit
               /\ call_log' = <<>>
               /\ UNCHANGED <<pc, user>>
          ELSE \E outcome \in UserLookupOutcomes :
               /\ call_log' = << [op |-> "fetch_user", target |-> query,
                                  outcome |-> outcome, result |-> "none"] >>
               /\ IF outcome \in {"http_error", "timeout", "malformed_body"}
                  THEN \* except HTTPError / Timeout / ValueError: sys.exit(1)
                       /\ SysExit
                       /\ UNCHANGED <<pc, user>>
                  ELSE IF outcome = "connection_error"
                  THEN \* except RequestException: the name is not imported, NameError
                       /\ Uncaught
                       /\ UNCHANGED <<pc, user>>
                  ELSE IF DirectoryMatches(query) = {}
                  THEN \* response.json()[0] on an empty list: IndexError
                       /\ Uncaught
                       /\ UNCHANGED <<pc, user>>
                  ELSE /\ user' = CHOOSE u \in DirectoryMatches(query) : TRUE
                       /\ pc' = IF args.notification
                                THEN "send_okta_enrollment_email_v2"
                                ELSE "find_user_push_factor"
                       /\ UNCHANGED <<status, exit_code>>
    /\ factor_idx' = 1
    /\ new_factor_information' = "unset"
    /\ UNCHANGED <<pagedVars, analysisVars, verifyVars, driverVars, notifierVars,
                   template, users, user_idx, processed>>

\* line 235 and find_user_push_factor (lines 311-357) with fetch_user_factors
find_user_push_factor ==
    /\ status = "running"
    /\ pc = "find_user_push_factor"
    /\ \E outcome \in FactorsOutcomes :
       \E body \in (IF outcome = "ok" THEN FactorResponses ELSE {<<>>}) :
        /\ call_log' = Append(call_log, [op |-> "fetch_user_factors", target |-> user.id,
                                         outcome |-> outcome, result |-> "none"])
        /\ IF FactorsFetchReturns(outcome)
           THEN /\ user' = ClassifyPushFactors(user, FetchedFactors(outcome, body))
                /\ pc' = "unenroll_all_user_push_factors"
                /\ UNCHANGED <<status, exit_code>>
           ELSE /\ SysExit
                /\ UNCHANGED <<pc, user>>
    /\ UNCHANGED <<pagedVars, analysisVars, verifyVars, driverVars, notifierVars,
                   template, users, user_idx, factor_idx,
                   new_factor_information, processed>>

\* a mutant of unenroll_all_user_push_factors: a user without push factor is
\* taken to need no new factor
unenroll_all_user_push_factors_skips_enroll ==
    /\ status = "running"
    /\ pc = "unenroll_all_user_push_factors"
    /\ user' = DictUpdate(user, [ userSuccessfulUnenrolledFactors |-> <<>>,
                                  userFailedUnenrolledFactors |-> <<>> ])
    /\ factor_idx' = 1
    /\ pc' = IF Len(user.userPushFactorList) = 0
             THEN "send_okta_enrollment_email_v2"
             ELSE "unenroll_user_factor"
    /\ UNCHANGED <<status, exit_code, pagedVars, analysisVars, verifyVars, driverVars, notifierVars,
                   template, users, user_idx,
                   new_factor_information, call_log, processed>>

\* line 236 and lines 360-378: the two result lists are attached, empty
unenroll_all_user_push_factors ==
    /\ status = "running"
    /\ pc = "unenroll_all_user_push_factors"
    /\ user' = DictUpdate(user, [ userSuccessfulUnenrolledFactors |-> <<>>,
                                  userFailedUnenrolledFactors |-> <<>> ])
    /\ factor_idx' = 1
    /\ pc' = IF Len(user.userPushFactorList) = 0
             THEN "enroll_new_push_factor"
             ELSE "unenroll_user_factor"
    /\ UNCHANGED <<status, exit_code, pagedVars, analysisVars, verifyVars, driverVars, notifierVars,
                   template, users, user_idx,
                   new_factor_information, call_log, processed>>

\* what unenroll_user_factor and enroll_new_push_factor make of a failed
\* call: False from the HTTPError and Timeout handlers; for any other error
\* the next clause, except RequestException, names a class the module never
\* imported (lines 1-10), and evaluating it raises NameError
CallRaisesNameError(outcome) == outcome = "connection_error"

\* one turn of the loop of lines 380-399, with unenroll_user_factor (404-463)
unenroll_user_factor ==
    /\ status = "running"
    /\ pc = "unenroll_user_factor"
    /\ \E outcome \in CallOutcomes :
        LET push_factor == user.userPushFactorList[factor_idx]
            result == IF outcome = "ok" THEN "True"
                      ELSE IF CallRaisesNameError(outcome) THEN "raised" ELSE "False"
        IN /\ call_log' = Append(call_log, [op |-> "unenroll_user_factor",
                                            target |-> push_factor.id,
                                            outcome |-> outcome, result |-> result])
           /\ IF result = "raised"
              THEN /\ Uncaught
                   /\ UNCHANGED <<pc, user, factor_idx>>
              ELSE /\ user' = IF result = "True"
                              THEN [user EXCEPT !.userSuccessfulUnenrolledFactors =
                                                    Append(@, push_factor)]
                              ELSE [user EXCEPT !.userFailedUnenrolledFactors =
                                                    Append(@, push_factor)]
                   /\ factor_idx' = factor_idx + 1
                   /\ pc' = IF factor_idx + 1 > Len(user.userPushFactorList)
                            THEN "enroll_new_push_factor"
                            ELSE "unenroll_user_factor"
                   /\ UNCHANGED <<status, exit_code>>
    /\ UNCHANGED <<pagedVars, analysisVars, verifyVars, driverVars, notifierVars,
                   template, users, user_idx,
                   new_factor_information, processed>>

\* okta_user_functions.py lines 476-479: the body of the enroll request
EnrollPayload == [factorType |-> "push", provider |-> "OKTA"]

\* line 237 and enroll_new_push_factor (lines 466-543)
enroll_new_push_factor ==
    /\ status = "running"
    /\ pc = "enroll_new_push_factor"
    /\ \E outcome \in CallOutcomes :
        LET result == IF outcome = "ok" THEN "response"
                      ELSE IF CallRaisesNameError(outcome) THEN "raised" ELSE "False"
        IN /\ call_log' = Append(call_log, [op |-> "enroll_new_push_factor",
                                            target |-> user.id,
                                            outcome |-> outcome, result |-> result,
                                            payload |-> EnrollPayload])
           /\ IF result = "raised"
              THEN /\ Uncaught
                   /\ UNCHANGED <<pc, new_factor_information>>
              ELSE /\ new_factor_information' = result
                   /\ pc' = "send_okta_enrollment_email_v2"
                   /\ UNCHANGED <<status, exit_code>>
    /\ UNCHANGED <<pagedVars, analysisVars, verifyVars, driverVars, notifierVars,
                   template, users, user_idx, user, factor_idx,
                   processed>>

\* the outcome of the factors request among the calls of a row, "none"
\* when the workflow made none
FactorsOutcomeOf(log) ==
    IF \E i \in 1..Len(log) : log[i].op = "fetch_user_factors"
    THEN log[CHOOSE i \in 1..Len(log) : log[i].op = "fetch_user_factors"].outcome
    ELSE "none"

\* what the request of fetch_oauth_session for a token can come to:
\* "value_error" is an environment variable of lines 81-83 that is not set
OauthOutcomes == {"ok", "error", "value_error"}

\* the lifetimes, in seconds, the token endpoint grants
ExpiresInSamples == {1, 2}

\* send_o365_email.py lines 105-108: the token response with the time it was
\* fetched at (the fields validate_token reads)
TokenResponse(expires_in, now) ==
    << <<"expires_in", expires_in>>, <<"fetched_timestamp", now>> >>

\* a mutant of is_token_expired: the comparison is turned round
is_token_expired_inverted(token, now) ==
    (DictGet(token, "fetched_timestamp") + DictGet(token, "expires_in")) >= now

\* lines 129-139: False when fetched_timestamp + expires_in >= current_time
\* (logged as "Token Expired"), True otherwise (logged as "Token valid")
is_token_expired(token, now) ==
    IF (DictGet(token, "fetched_timestamp") + DictGet(token, "expires_in")) >= now
    THEN FALSE
    ELSE TRUE

\* lines 122-126: validate_token calls fetch_oauth_session
TokenFetchNeeded(token, now) ==
    IF token = <<>> THEN TRUE ELSE is_token_expired(token, now)

\* lines 119-126 with fetch_oauth_session, lines 79-116: the token is kept,
\* or a new one is requested; a request that fails, or a missing environment
\* variable, is sys.exit(1).  ok says that the caller goes on
ValidateToken(outcome, expires_in, ok) ==
    IF ~TokenFetchNeeded(OAUTH_TOKEN, current_time)
    THEN /\ ok
         /\ UNCHANGED <<OAUTH_TOKEN, oauth_requests>>
    ELSE /\ oauth_requests' = IF outcome = "value_error" THEN oauth_requests
                                                           ELSE oauth_requests + 1
         /\ IF outcome = "ok"
            THEN /\ ok
                 /\ OAUTH_TOKEN' = TokenResponse(expires_in, current_time)
            ELSE /\ ~ok
                 /\ UNCHANGED OAUTH_TOKEN

\* a call of validate_token, as every send_* function of send_o365_email.py
\* makes it first
validate_token ==
    /\ status = "running"
    /\ pc = "validate_token"
    /\ \E outcome \in OauthOutcomes, expires_in \in ExpiresInSamples, ok \in BOOLEAN :
           /\ ValidateToken(outcome, expires_in, ok)
           /\ IF ok THEN UNCHANGED <<status, exit_code>> ELSE SysExit
    /\ UNCHANGED <<pc, current_time, pagedVars, analysisVars, reenrollVars, verifyVars,
                   driverVars>>

\* a mutant of DeliveryFailed: what requests.post raises is swallowed
DeliveryFailureIgnored(outcome) == FALSE

\* send_o365_email.py lines 360-370: requests.post or raise_for_status raises
DeliveryFailed(outcome) == outcome # "ok"

\* send_o365_email.py lines 181-274, called directly (as the __main__ block of
\* the module does, line 435): the token is validated, the template of the
\* fixed path is loaded (sys.exit(1) when it cannot be read), nothing is sent
\* to an empty address or without a QR code URL, and a POST to sendMail that
\* raises or answers an error status is sys.exit(1)
send_okta_enrollment_email ==
    /\ status = "running"
    /\ pc = "validate_token"
    /\ Len(call_log) < MaxMails
    /\ \E destination_email \in {"", "a@x.io"}, qr_code_url \in {"None", "https://qr"},
          html_template \in {"exists", "missing"}, outcome \in SendOutcomes,
          token_outcome \in OauthOutcomes, expires_in \in ExpiresInSamples, ok \in BOOLEAN :
        /\ ValidateToken(token_outcome, expires_in, ok)
        /\ IF ~ok \/ html_template = "missing"
           THEN /\ SysExit
                /\ UNCHANGED call_log
           ELSE IF destination_email = "" \/ qr_code_url = "None"
           THEN UNCHANGED <<status, exit_code, call_log>>
           ELSE /\ call_log' = Append(call_log, [op |-> "send_okta_enrollment_email",
                                                 target |-> destination_email,
                                                 outcome |-> outcome, result |-> "none"])
                /\ IF DeliveryFailed(outcome)
                   THEN SysExit
                   ELSE UNCHANGED <<status, exit_code>>
    /\ UNCHANGED <<pc, current_time, pagedVars, analysisVars, verifyVars, driverVars, template,
                   users, user_idx, user, factor_idx, new_factor_information, processed>>

\* lines 374-421, called directly: the token is validated, an empty list of
\* destinations is sys.exit(1), and so is a POST to sendMail that raises or
\* answers an error status
send_email ==
    /\ status = "running"
    /\ pc = "validate_token"
    /\ Len(call_log) < MaxMails
    /\ \E destination_email_list \in {<<>>, <<"a@x.io">>}, outcome \in SendOutcomes,
          token_outcome \in OauthOutcomes, expires_in \in ExpiresInSamples, ok \in BOOLEAN :
        /\ ValidateToken(token_outcome, expires_in, ok)
        /\ IF ~ok \/ Len(destination_email_list) <= 0
           THEN /\ SysExit
                /\ UNCHANGED call_log
           ELSE /\ call_log' = Append(call_log, [op |-> "send_email",
                                                 target |-> destination_email_list[1],
                                                 outcome |-> outcome, result |-> "none"])
                /\ IF DeliveryFailed(outcome)
                   THEN SysExit
                   ELSE UNCHANGED <<status, exit_code>>
    /\ UNCHANGED <<pc, current_time, pagedVars, analysisVars, verifyVars, driverVars, template,
                   users, user_idx, user, factor_idx, new_factor_information, processed>>

\* a second passes between two calls
Tick ==
    /\ status = "running"
    /\ pc = "validate_token"
    /\ current_time < MaxTime
    /\ current_time' = current_time + 1
    /\ UNCHANGED <<pc, status, exit_code, OAUTH_TOKEN, oauth_requests, pagedVars, analysisVars,
                   reenrollVars, verifyVars, driverVars>>

\* the notifier called again and again while the clock runs
InitToken ==
    /\ pc = "validate_token"
    /\ status = "running"
    /\ exit_code = -1
    /\ endpoint = <<>>
    /\ next_page = 1
    /\ result_list = <<>>
    /\ requests_log = <<>>
    /\ returned = FALSE
    /\ app_list = <<>>
    /\ unique_users = <<>>
    /\ AnalysisIdle
    /\ ATTACHMENT_FILEPATH = "unset"
    /\ ReenrollIdle

NextToken ==
    \/ validate_token
    \/ send_okta_enrollment_email
    \/ send_email
    \/ Tick

SpecToken == InitToken /\ [][NextToken]_vars

\* the attachment path the workflow passes: the environment variable in the
\* re-enrollment workflow (line 242), a fixed path in the notification
\* workflow (line 279)
AttachmentPathPassed ==
    IF args.notification THEN "./documents/guide_v3.pdf" ELSE ATTACHMENT_FILEPATH

\* lines 239-244, or lines 276-284 of the notification workflow, and
\* send_okta_enrollment_email_v2 (send_o365_email.py lines 277-370): the
\* token is validated; the template is opened again for this user
\* (load_email_html_template, lines 141-156), and a file that is gone or
\* cannot be read, though the workflow found its path, is sys.exit(1); an empty
\* destination address returns without sending (lines 303-310); then the
\* attachment is loaded (attach_instructions is True in both workflows; a
\* file that cannot be read is left out of the mail), then the email goes
\* out whatever new_factor_information holds; a failed delivery is sys.exit(1)
send_okta_enrollment_email_v2 ==
    /\ status = "running"
    /\ pc = "send_okta_enrollment_email_v2"
    /\ \E outcome \in SendOutcomes, token_outcome \in OauthOutcomes,
          expires_in \in ExpiresInSamples, ok \in BOOLEAN,
          html_template \in {"exists", "missing"} :
        /\ ValidateToken(token_outcome, expires_in, ok)
        /\ IF ~ok \/ html_template = "missing"
           THEN /\ SysExit
                /\ UNCHANGED <<pc, user_idx, processed, call_log>>
           ELSE IF Len(DictGet(user.profile, "email")) <= 0
           THEN /\ processed' = Append(processed,
                               [ userEmail |-> users[user_idx].userEmail,
                                 enrolled |-> new_factor_information = "response",
                                 notified |-> FALSE,
                                 factors_outcome |-> FactorsOutcomeOf(call_log) ])
                /\ NextRow
                /\ UNCHANGED call_log
           ELSE IF AttachmentPathRaises(AttachmentPathPassed)
           THEN /\ Uncaught
                /\ UNCHANGED <<pc, user_idx, processed, call_log>>
           ELSE /\ call_log' = Append(call_log, [op |-> "send_okta_enrollment_email_v2",
                                                 target |-> DictGet(user.profile, "email"),
                                                 outcome |-> outcome, result |-> "none"])
                /\ IF ~DeliveryFailed(outcome)
                   THEN /\ processed' = Append(processed,
                                       [ userEmail |-> users[user_idx].userEmail,
                                         enrolled |-> new_factor_information = "response",
                                         notified |-> TRUE,
                                         factors_outcome |-> FactorsOutcomeOf(call_log) ])
                        /\ NextRow
                   ELSE /\ SysExit
                        /\ UNCHANGED <<pc, user_idx, processed>>
    /\ UNCHANGED <<pagedVars, analysisVars, verifyVars, driverVars, current_time, template, users,
                   user, factor_idx, new_factor_information>>

\* the re-enrollment driver called with a roster
InitReenroll ==
    /\ pc = "execute_reenrollment_workflow"
    /\ status = "running"
    /\ exit_code = -1
    /\ endpoint = <<>>
    /\ next_page = 1
    /\ result_list = <<>>
    /\ requests_log = <<>>
    /\ returned = FALSE
    /\ app_list = <<>>
    /\ unique_users = <<>>
    /\ AnalysisIdle
    /\ ATTACHMENT_FILEPATH \in AttachmentPaths
    /\ template \in {"exists", "missing", "unset"}
    /\ users \in SeqsUpTo(RosterRows, MaxRoster)
    /\ user_idx = 1
    /\ user = NoUser
    /\ factor_idx = 1
    /\ new_factor_information = "unset"
    /\ call_log = <<>>
    /\ processed = <<>>

NextReenroll ==
    \/ execute_reenrollment_workflow
    \/ fetch_user
    \/ find_user_push_factor
    \/ unenroll_all_user_push_factors
    \/ unenroll_user_factor
    \/ enroll_new_push_factor
    \/ send_okta_enrollment_email_v2

SpecReenroll == InitReenroll /\ [][NextReenroll]_vars


-----------------------------------------------------------------------------
(* The analysis run: the stages of find_app_users_no_device.py, lines 277-319 *)

\* a chain of pages, each announcing the next but the last
ChainOf(pages) ==
    [i \in 1..Len(pages) |->
        [data |-> pages[i],
         headers |-> IF i < Len(pages) THEN OktaSelfNext ELSE OktaSelfOnly]]

\* the application catalogue GET /api/v1/apps serves: in the second one two
\* applications carry the label A
App_A1 == [id |-> "0oa1", label |-> "A"]
App_B == [id |-> "0oa2", label |-> "B"]
App_A3 == [id |-> "0oa3", label |-> "A"]
AppCatalogues ==
    { ChainOf(<< <<App_A1, App_B>> >>),
      ChainOf(<< <<App_A1>>, <<App_B, App_A3>> >>) }

\* okta_apps.csv as the lines of a one-column file, the header first: no
\* file, a file of zero bytes, a file whose column is not AppName, a header
\* without rows, and under the header AppName two names, a name twice, a name
\* the catalogue does not hold before one it holds, a name in another case
CsvSamples ==
    { NoFile,
      FileWith(<<>>),
      FileWith(<<"Name", "A">>),
      FileWith(<<"AppName">>),
      FileWith(<<"AppName", "A", "B">>),
      FileWith(<<"AppName", "A", "A">>),
      FileWith(<<"AppName", "Z", "B">>),
      FileWith(<<"AppName", "a", "A">>) }

\* pd.read_csv(filepath) on a file that holds a header line: the DataFrame
\* has the header as its column and the lines after it as the rows
load_csv_dataframe(file) ==
    [ columns |-> <<Head(file.text)>>, rows |-> Tail(file.text) ]

\* the user dicts GET /api/v1/users and GET /api/v1/users/{id} serve
OktaUser(id) ==
    [ id |-> id,
      profile |-> IF id = "u1" THEN Profile_u1
                  ELSE IF id = "u2" THEN Profile_u2 ELSE Profile_u3 ]

\* the user listings: the first does not list u3
UserListings ==
    { ChainOf(<< <<OktaUser("u1"), OktaUser("u2")>> >>),
      ChainOf(<< <<OktaUser("u1")>>, <<OktaUser("u2"), OktaUser("u3")>> >>) }

\* the device listing GET /api/v1/devices serves
\* a device as the listing holds it; resourceDisplayName is the name shown
OktaDevice(id) == [id |-> id, resourceDisplayName |-> [value |-> id]]

\* the second listing holds a device record without resourceDisplayName
DeviceListings ==
    { ChainOf(<< << OktaDevice("d1"), OktaDevice("d2") >> >>),
      ChainOf(<< << [id |-> "d3"] >> >>) }


\* the entries GET /api/v1/devices/{id}/users answers with: an owner, and an
\* entry without the user key
OwnerEntry(id) == [user |-> [id |-> id], managementStatus |-> "MANAGED"]
UnreadableEntry == [managementStatus |-> "MANAGED"]

\* the answers for one device: no owner, one owner, two owners, an owner
\* followed by an entry that cannot be read
DeviceOwnerResponses ==
    { <<>>,
      <<OwnerEntry("u1")>>,
      <<OwnerEntry("u2"), OwnerEntry("u1")>>,
      <<OwnerEntry("u1"), UnreadableEntry>> }

\* what the owner request of one device can come to
OwnerFetchOutcomes == {"ok", "request_error"}

\* an index as a run before this one built it
DeviceSnapshot ==
    << <<"u1", << [ id |-> "d1", resourceDisplayName |-> [value |-> "d1"],
                    users |-> PyList(<< [id |-> "u1"] >>),
                    managementStatus |-> "MANAGED" ] >> >> >>

\* the members GET /api/v1/apps/{id}/users can list for an application
AppUser(id) == [id |-> id, scope |-> "USER"]
MembershipListings ==
    { ChainOf(<< <<>> >>),
      ChainOf(<< <<AppUser("u1"), AppUser("u2")>> >>),
      ChainOf(<< <<AppUser("u2")>>, <<AppUser("u3")>> >>),
      ChainOf(<< <<AppUser("u1"), AppUser("u1")>> >>) }

\* the factor lists the provider answers with during the analysis
AnalysisFactorResponses == { <<Factor_sms>>, <<Factor_sms, Factor_push1>> }

\* a paged fetcher is called on a collection; then goes on when it returns
CallPaged(f, chains, then) ==
    /\ pc' = f
    /\ endpoint' \in chains
    /\ next_page' = 1
    /\ result_list' = <<>>
    /\ requests_log' = <<>>
    /\ returned' = FALSE
    /\ ret' = then

\* a mutant of AppMap: the first application of a label is kept
RECURSIVE AppMapFirstWins(_, _)
AppMapFirstWins(all_apps, n) ==
    IF n = 0 THEN <<>>
    ELSE IF DictHas(AppMapFirstWins(all_apps, n - 1), all_apps[n].label)
         THEN AppMapFirstWins(all_apps, n - 1)
         ELSE DictSet(AppMapFirstWins(all_apps, n - 1), all_apps[n].label, all_apps[n])

\* okta_app_functions.py lines 148-149: label -> application, a later
\* application of the same label replaces the earlier one
RECURSIVE AppMap(_, _)
AppMap(all_apps, n) ==
    IF n = 0 THEN <<>>
    ELSE DictSet(AppMap(all_apps, n - 1), all_apps[n].label, all_apps[n])

\* okta_app_functions.py lines 151-164: one dict per row of the CSV whose name
\* is a label of the catalogue; the other rows are logged and skipped
RECURSIVE AppsWithIds(_, _, _)
AppsWithIds(targeted_apps_list, app_map, n) ==
    IF n = 0 THEN <<>>
    ELSE LET rest == AppsWithIds(targeted_apps_list, app_map, n - 1)
             app == targeted_apps_list[n]
         IN IF DictHas(app_map, app)
            THEN Append(rest, [ name |-> DictGet(app_map, app).label,
                                id |-> DictGet(app_map, app).id ])
            ELSE rest

GetAppIdsForTargetedApps(targeted_apps_list, all_apps) ==
    AppsWithIds(targeted_apps_list, AppMap(all_apps, Len(all_apps)), Len(targeted_apps_list))

\* lines 286-289 of the driver: okta_apps.csv is loaded (lines 239-251) and
\* resolved against the catalogue just fetched.  A missing file is
\* sys.exit(1).  Any other failure of pd.read_csv, as EmptyDataError on a file
\* of zero bytes, enters `except Exception as err`, whose second statement
\* reads file_err, a name bound only by the other handler: UnboundLocalError,
\* which nothing catches.  A DataFrame without the column AppName raises
\* AttributeError at targeted_apps.AppName (okta_app_functions.py line 151),
\* which nothing catches either.
get_app_ids_for_targeted_apps ==
    /\ status = "running"
    /\ pc = "get_app_ids_for_targeted_apps"
    /\ \E file \in CsvSamples :
         IF ~file.exists
         THEN /\ SysExit
              /\ UNCHANGED <<pc, app_list, targeted_apps>>
         ELSE IF file.text = <<>>
         THEN /\ Uncaught
              /\ UNCHANGED <<pc, app_list, targeted_apps>>
         ELSE /\ targeted_apps' = load_csv_dataframe(file)
              /\ IF targeted_apps'.columns # <<"AppName">>
                 THEN /\ Uncaught
                      /\ UNCHANGED <<pc, app_list>>
                 ELSE /\ app_list' = GetAppIdsForTargetedApps(targeted_apps'.rows, result_list)
                      /\ pc' = "get_user_mapping_table"
                      /\ UNCHANGED <<status, exit_code>>
    /\ UNCHANGED <<pagedVars, unique_users, USER_ID_MAPPING, USER_DEVICE_MAPPING, app_idx,
                   item_idx, factor_fetch_log, temp_list, main_USER_ID_MAPPING,
                   profile_fetch_log, okta_device_users_json, reenrollVars, verifyVars, driverVars, notifierVars>>

\* okta_user_functions.py lines 88-90
RECURSIVE UserMap(_, _)
UserMap(user_list, n) ==
    IF n = 0 THEN <<>>
    ELSE DictSet(UserMap(user_list, n - 1), user_list[n].id, user_list[n])

\* the index a non-empty okta_users.json of an earlier run holds: u3 is not in it
UserSnapshot == UserMap(<<OktaUser("u1"), OktaUser("u2")>>, 2)

\* lines 295-299 of the driver and load_json_file (lines 253-262): with a
\* non-empty okta_users.json the index is bound to the driver's own
\* USER_ID_MAPPING, the users are not fetched, and the table of
\* okta_user_functions stays empty; with no file, or a file that holds {},
\* the users are fetched; a file that is not JSON, as one of zero bytes,
\* raises JSONDecodeError in json.load, which load_json_file does not catch
\* (FileNotFoundError only) and nothing else does
load_user_snapshot ==
    /\ status = "running"
    /\ pc = "get_user_mapping_table"
    /\ \E okta_users_json \in {"absent", "not_json", "empty_object", "index"} :
         IF okta_users_json = "not_json"
         THEN /\ Uncaught
              /\ UNCHANGED <<pc, pagedVars, main_USER_ID_MAPPING>>
         ELSE IF okta_users_json = "index"
         THEN /\ main_USER_ID_MAPPING' = UserSnapshot
              /\ pc' = "get_all_device_users"
              /\ UNCHANGED <<status, exit_code, pagedVars>>
         ELSE /\ CallPaged("fetch_users", UserListings, "map_users")
              /\ UNCHANGED <<status, exit_code, main_USER_ID_MAPPING>>
    /\ UNCHANGED <<app_list, unique_users, USER_ID_MAPPING,
                   USER_DEVICE_MAPPING, app_idx, item_idx, factor_fetch_log, temp_list,
                   targeted_apps, profile_fetch_log, okta_device_users_json, reenrollVars,
                   verifyVars, driverVars, notifierVars>>

\* get_user_mapping_table, after fetch_users has returned: the table of
\* okta_user_functions is filled and returned to the driver (line 298)
get_user_mapping_table ==
    /\ status = "running"
    /\ pc = "map_users"
    /\ USER_ID_MAPPING' = UserMap(result_list, Len(result_list))
    /\ main_USER_ID_MAPPING' = USER_ID_MAPPING'
    /\ pc' = "get_all_device_users"
    /\ UNCHANGED <<status, exit_code, pagedVars, app_list, unique_users, USER_DEVICE_MAPPING,
                   app_idx, item_idx, factor_fetch_log, temp_list, targeted_apps,
                   profile_fetch_log, okta_device_users_json, reenrollVars, verifyVars, driverVars, notifierVars>>

\* json.dump of an index: the text as a sequence of tokens, an object of
\* user-id members whose values are arrays of device objects
RECURSIVE JsonDevices(_, _)
JsonDevices(devices, n) ==
    IF n = 0 THEN <<>>
    ELSE JsonDevices(devices, n - 1)
         \o << [t |-> "device", v |-> devices[n].id],
               [t |-> "name", v |-> devices[n].resourceDisplayName.value],
               [t |-> "status", v |-> devices[n].managementStatus] >>
         \o [i \in 1..Len(devices[n].users.list) |->
                [t |-> "user", v |-> devices[n].users.list[i].id]]

RECURSIVE JsonMembers(_, _)
JsonMembers(index, n) ==
    IF n = 0 THEN <<>>
    ELSE JsonMembers(index, n - 1)
         \o << [t |-> "key", v |-> index[n][1]] >>
         \o JsonDevices(index[n][2], Len(index[n][2]))

JsonDump(index) ==
    << [t |-> "{", v |-> ""] >> \o JsonMembers(index, Len(index)) \o << [t |-> "}", v |-> ""] >>

\* json.load raises JSONDecodeError: the text is not one complete object
JsonLoadRaises(text) ==
    \/ Len(text) < 2
    \/ text[1].t # "{"
    \/ text[Len(text)].t # "}"

\* a mutant of JsonParse: a device replaces the array of its member
RECURSIVE JsonParseKeepsLastDevice(_, _)
JsonParseKeepsLastDevice(text, n) ==
    IF n = 0 THEN <<>>
    ELSE LET index == JsonParseKeepsLastDevice(text, n - 1)
             tok == text[n]
             last == Len(index)
             devs == index[last][2]
         IN IF tok.t = "key" THEN Append(index, <<tok.v, <<>> >>)
            ELSE IF tok.t = "device"
            THEN [index EXCEPT ![last][2] =
                     << [id |-> tok.v, resourceDisplayName |-> [value |-> ""],
                         users |-> PyList(<<>>), managementStatus |-> ""] >>]
            ELSE IF tok.t = "name"
            THEN [index EXCEPT ![last][2][Len(devs)].resourceDisplayName = [value |-> tok.v]]
            ELSE IF tok.t = "status"
            THEN [index EXCEPT ![last][2][Len(devs)].managementStatus = tok.v]
            ELSE IF tok.t = "user"
            THEN [index EXCEPT ![last][2][Len(devs)].users =
                     PyList(Append(@.list, [id |-> tok.v]))]
            ELSE index

\* json.load, read token by token: a key opens a member, a device goes in
\* the array of the last member, a status and a user in the last device
RECURSIVE JsonParse(_, _)
JsonParse(text, n) ==
    IF n = 0 THEN <<>>
    ELSE LET index == JsonParse(text, n - 1)
             tok == text[n]
             last == Len(index)
             devs == index[last][2]
         IN IF tok.t = "key" THEN Append(index, <<tok.v, <<>> >>)
            ELSE IF tok.t = "device"
            THEN [index EXCEPT ![last][2] =
                     Append(@, [id |-> tok.v, resourceDisplayName |-> [value |-> ""],
                                users |-> PyList(<<>>), managementStatus |-> ""])]
            ELSE IF tok.t = "name"
            THEN [index EXCEPT ![last][2][Len(devs)].resourceDisplayName = [value |-> tok.v]]
            ELSE IF tok.t = "status"
            THEN [index EXCEPT ![last][2][Len(devs)].managementStatus = tok.v]
            ELSE IF tok.t = "user"
            THEN [index EXCEPT ![last][2][Len(devs)].users =
                     PyList(Append(@.list, [id |-> tok.v]))]
            ELSE index

JsonLoad(text) == JsonParse(text, Len(text))

\* lines 303-309 of the driver: okta_device_users.json is loaded when it is
\* there; an index that is empty or missing is built from the devices
load_device_snapshot ==
    /\ status = "running"
    /\ pc = "get_all_device_users"
    /\ IF okta_device_users_json.exists /\ JsonLoadRaises(okta_device_users_json.text)
       THEN /\ Uncaught
            /\ UNCHANGED <<pc, pagedVars, USER_DEVICE_MAPPING, app_idx, item_idx>>
       ELSE LET loaded == IF okta_device_users_json.exists
                          THEN JsonLoad(okta_device_users_json.text)
                          ELSE <<>>
            IN /\ USER_DEVICE_MAPPING' = loaded
               /\ IF Len(loaded) = 0
                  THEN /\ CallPaged("fetch_devices", DeviceListings, "loop_get_all_device_users")
                       /\ item_idx' = 1
                       /\ UNCHANGED app_idx
                  ELSE /\ pc' = "fetch_all_app_users"
                       /\ app_idx' = 1
                       /\ UNCHANGED <<pagedVars, item_idx>>
               /\ UNCHANGED <<status, exit_code>>
    /\ UNCHANGED <<app_list, unique_users, USER_ID_MAPPING,
                   factor_fetch_log, analysisIoVars, reenrollVars, verifyVars, driverVars, notifierVars>>

\* the entries of data read before one that has no user key
RECURSIVE ReadableEntries(_, _)
ReadableEntries(data, n) ==
    IF n = 0 THEN 0
    ELSE IF ReadableEntries(data, n - 1) = n - 1 /\ "user" \in DOMAIN data[n]
         THEN n ELSE ReadableEntries(data, n - 1)

\* okta_device_functions.py lines 180-190: the device dict after the loop
\* over the first k entries; temp_users is one list, so users holds them all
DeviceAfter(okta_device, data, k) ==
    IF Len(data) = 0
    THEN DictUpdate(okta_device, [users |-> PyNone, managementStatus |-> "N/A"])
    ELSE IF k = 0 THEN okta_device
    ELSE DictUpdate(okta_device,
                    [ users |-> PyList([i \in 1..k |-> data[i].user]),
                      managementStatus |-> data[1].managementStatus ])

\* lines 192-195: the device goes under the user id of each of the first k
\* entries; the index holds the device dict itself
RECURSIVE AddDeviceOwners(_, _, _, _)
AddDeviceOwners(mapping, device, data, k) ==
    IF k = 0 THEN mapping
    ELSE LET m == AddDeviceOwners(mapping, device, data, k - 1)
             user_id == data[k].user.id
         IN IF DictHas(m, user_id)
            THEN DictSet(m, user_id, Append(DictGet(m, user_id), device))
            ELSE DictSet(m, user_id, <<device>>)

\* one turn of loop_get_all_device_users with fetch_device_users (lines
\* 146-200): the debug line of line 155 reads resourceDisplayName of the
\* device before the call, a KeyError nothing catches when the key is not
\* there; whatever is raised inside fetch_device_users, by the request or
\* while the entries are read, is logged, None is returned and the loop goes on
DeviceBuildTurn(at, then) ==
    /\ status = "running"
    /\ pc = at
    /\ IF item_idx > Len(result_list)
       THEN /\ pc' = then
            /\ UNCHANGED <<status, exit_code, result_list, USER_DEVICE_MAPPING, item_idx,
                           temp_list>>
       ELSE IF "resourceDisplayName" \notin DOMAIN result_list[item_idx]
       THEN /\ Uncaught
            /\ UNCHANGED <<pc, result_list, USER_DEVICE_MAPPING, item_idx, temp_list>>
       ELSE /\ UNCHANGED <<status, exit_code>>
            /\ \E outcome \in OwnerFetchOutcomes :
               \E data \in (IF outcome = "ok" THEN DeviceOwnerResponses ELSE {<<>>}) :
                LET okta_device == result_list[item_idx]
                    k == ReadableEntries(data, Len(data))
                    after == DeviceAfter(okta_device, data, k)
                IN IF outcome = "ok"
                   THEN /\ result_list' = [result_list EXCEPT ![item_idx] = after]
                        /\ USER_DEVICE_MAPPING' =
                                AddDeviceOwners(USER_DEVICE_MAPPING, after, data, k)
                        /\ temp_list' = Append(temp_list,
                                               IF k = Len(data) THEN okta_device.id ELSE "None")
                   ELSE /\ temp_list' = Append(temp_list, "None")
                        /\ UNCHANGED <<result_list, USER_DEVICE_MAPPING>>
            /\ item_idx' = item_idx + 1
            /\ UNCHANGED pc
    /\ UNCHANGED <<endpoint, next_page, requests_log, returned, ret>>

\* get_all_device_users as the analysis driver calls it (line 307)
fetch_device_users ==
    /\ DeviceBuildTurn("loop_get_all_device_users", "dump_json_to_file")
    /\ UNCHANGED <<app_list, unique_users, USER_ID_MAPPING, app_idx, factor_fetch_log,
                   targeted_apps, main_USER_ID_MAPPING, profile_fetch_log,
                   okta_device_users_json, reenrollVars, verifyVars, driverVars, notifierVars>>

\* lines 308-309 of the driver: the index just built is written to
\* okta_device_users.json
dump_json_to_file ==
    /\ status = "running"
    /\ pc = "dump_json_to_file"
    /\ okta_device_users_json' = FileWith(JsonDump(USER_DEVICE_MAPPING))
    /\ pc' = "fetch_all_app_users"
    /\ app_idx' = 1
    /\ UNCHANGED <<status, exit_code, pagedVars, app_list, unique_users, USER_ID_MAPPING,
                   USER_DEVICE_MAPPING, item_idx, factor_fetch_log, temp_list, targeted_apps,
                   main_USER_ID_MAPPING, profile_fetch_log, reenrollVars, verifyVars, driverVars, notifierVars>>

\* okta_user_functions.py lines 250-252: the user dict is taken from the
\* table, and is then the one object every list holds for that id
InUserTable(user_id) == Len(USER_ID_MAPPING) > 0 /\ DictHas(USER_ID_MAPPING, user_id)

\* okta_user_functions.py lines 247-263: the full profile of every member,
\* from the table or else from GET /api/v1/users/{id}
FullUserProfiles(user_list) ==
    [i \in 1..Len(user_list) |->
        IF InUserTable(user_list[i].id)
        THEN DictGet(USER_ID_MAPPING, user_list[i].id)
        ELSE OktaUser(user_list[i].id)]

\* okta_user_functions.py lines 249-262: the ids fetch_user_profile is called
\* with among the first n members
RECURSIVE ProfileFetches(_, _)
ProfileFetches(user_list, n) ==
    IF n = 0 THEN <<>>
    ELSE IF InUserTable(user_list[n].id)
         THEN ProfileFetches(user_list, n - 1)
         ELSE Append(ProfileFetches(user_list, n - 1), user_list[n].id)

\* okta_app_functions.py lines 226-237, the head of the loop: the members of
\* the next application are fetched, or the list is returned
fetch_all_app_users ==
    /\ status = "running"
    /\ pc = "fetch_all_app_users"
    /\ IF app_idx > Len(app_list)
       THEN /\ pc' = "find_app_users_without_devices"
            /\ UNCHANGED pagedVars
       ELSE CallPaged("fetch_users_for_app", MembershipListings, "fetch_full_user_profiles")
    /\ UNCHANGED <<status, exit_code, analysisVars, reenrollVars, verifyVars, driverVars, notifierVars>>

\* the rest of the loop body: fetch_full_user_profiles on the members
\* fetched, a failed profile request being sys.exit(1), and app.update
fetch_full_user_profiles ==
    /\ status = "running"
    /\ pc = "fetch_full_user_profiles"
    /\ \/ \E i \in 1..Len(result_list) :
             /\ ~InUserTable(result_list[i].id)
             /\ profile_fetch_log' = profile_fetch_log \o ProfileFetches(result_list, i)
             /\ SysExit
             /\ UNCHANGED <<pc, app_list, app_idx>>
       \/ /\ app_list' = [app_list EXCEPT ![app_idx] =
                              DictUpdate(@, [users |-> FullUserProfiles(result_list)])]
          /\ profile_fetch_log' =
                 profile_fetch_log \o ProfileFetches(result_list, Len(result_list))
          /\ app_idx' = app_idx + 1
          /\ pc' = "fetch_all_app_users"
          /\ UNCHANGED <<status, exit_code>>
    /\ UNCHANGED <<pagedVars, unique_users, USER_ID_MAPPING, USER_DEVICE_MAPPING, item_idx,
                   factor_fetch_log, temp_list, targeted_apps, main_USER_ID_MAPPING,
                   okta_device_users_json, reenrollVars, verifyVars, driverVars, notifierVars>>

\* a mutant of HasNoRegisteredDevice: only the first key of the index is looked at
HasNoRegisteredDeviceFirstKey(user_, index) ==
    Len(index) = 0 \/ index[1][1] # user_.id

\* find_app_users_no_device.py line 114: user["id"] not in USER_DEVICE_MAPPING
HasNoRegisteredDevice(user_, index) == ~DictHas(index, user_.id)

\* lines 113-115: the loop over the first n members of one application
RECURSIVE UsersNoRegisteredDevices(_, _, _)
UsersNoRegisteredDevices(members, index, n) ==
    IF n = 0 THEN <<>>
    ELSE LET rest == UsersNoRegisteredDevices(members, index, n - 1) IN
         IF HasNoRegisteredDevice(members[n], index)
         THEN Append(rest, members[n])
         ELSE rest

\* lines 109-124
FindAppUsersWithoutDevices(apps, index) ==
    [a \in 1..Len(apps) |->
        DictUpdate(apps[a], [usersNoRegisteredDevices |->
            UsersNoRegisteredDevices(apps[a].users, index, Len(apps[a].users))])]

\* a mutant of find_app_users_without_devices: the index is consumed, the
\* members looked up are taken out of it
find_app_users_without_devices_consumes ==
    /\ status = "running"
    /\ pc = "find_app_users_without_devices"
    /\ app_list' = FindAppUsersWithoutDevices(app_list, USER_DEVICE_MAPPING)
    /\ USER_DEVICE_MAPPING' =
           SelectSeq(USER_DEVICE_MAPPING,
                     LAMBDA kv : \A a \in 1..Len(app_list) :
                                    \A i \in 1..Len(app_list[a].users) :
                                        app_list[a].users[i].id # kv[1])
    /\ pc' = "find_users_needing_reenrollment"
    /\ app_idx' = 1
    /\ item_idx' = 0
    /\ UNCHANGED <<status, exit_code, pagedVars, unique_users, USER_ID_MAPPING,
                   factor_fetch_log, analysisIoVars, reenrollVars, verifyVars, driverVars,
                   notifierVars>>

find_app_users_without_devices ==
    /\ status = "running"
    /\ pc = "find_app_users_without_devices"
    /\ app_list' = FindAppUsersWithoutDevices(app_list, USER_DEVICE_MAPPING)
    /\ pc' = "find_users_needing_reenrollment"
    /\ app_idx' = 1
    /\ item_idx' = 0
    /\ UNCHANGED <<status, exit_code, pagedVars, unique_users, USER_ID_MAPPING,
                   USER_DEVICE_MAPPING, factor_fetch_log, analysisIoVars, reenrollVars, verifyVars, driverVars, notifierVars>>

\* the places, in the members of an application, of its users without device
NoDeviceIndexes(members, index) ==
    SelectSeq([i \in 1..Len(members) |-> i],
              LAMBDA i : HasNoRegisteredDevice(members[i], index))

\* find_user_push_factor updates the user dict in place: every list that
\* holds the object shows the update.  A dict taken from the user table is in
\* every list under its id; a dict fetched for one member is in the members
\* and in the users without device of that application only.
UpdateUserObject(apps, a, j, updated) ==
    [b \in 1..Len(apps) |->
        LET same(list, own) ==
                [i \in 1..Len(list) |->
                    IF \/ InUserTable(updated.id) /\ list[i].id = updated.id
                       \/ ~InUserTable(updated.id) /\ b = a /\ i = own
                    THEN updated ELSE list[i]]
            own_member == NoDeviceIndexes(apps[a].users, USER_DEVICE_MAPPING)[j]
            seen == DictUpdate(apps[b],
                        [ users |-> same(apps[b].users, own_member),
                          usersNoRegisteredDevices |->
                              same(apps[b].usersNoRegisteredDevices, j) ])
        IN IF "usersTargetedForReEnrollment" \in DOMAIN apps[b]
           THEN DictUpdate(seen, [usersTargetedForReEnrollment |->
                                     same(apps[b].usersTargetedForReEnrollment, 0)])
           ELSE seen]

\* lines 127-154: at the head of the loop over the applications the targeted
\* list is attached, empty; one turn of the inner loop inspects the factors of
\* one user without device and appends the user when a push factor exists
find_users_needing_reenrollment ==
    /\ status = "running"
    /\ pc = "find_users_needing_reenrollment"
    /\ IF app_idx > Len(app_list)
       THEN /\ pc' = "generate_unique_users_for_reenrollment"
            /\ UNCHANGED <<status, exit_code, app_list, USER_ID_MAPPING, main_USER_ID_MAPPING,
                           app_idx, item_idx, factor_fetch_log>>
       ELSE IF item_idx = 0
       THEN /\ app_list' = [app_list EXCEPT ![app_idx] =
                                DictUpdate(@, [usersTargetedForReEnrollment |-> <<>>])]
            /\ IF Len(app_list[app_idx].usersNoRegisteredDevices) > 0
               THEN item_idx' = 1 /\ UNCHANGED app_idx
               ELSE app_idx' = app_idx + 1 /\ UNCHANGED item_idx
            /\ UNCHANGED <<pc, status, exit_code, USER_ID_MAPPING, main_USER_ID_MAPPING,
                           factor_fetch_log>>
       ELSE \E outcome \in FactorsOutcomes :
            \E body \in (IF outcome = "ok" THEN AnalysisFactorResponses ELSE {<<>>}) :
                LET user_ == app_list[app_idx].usersNoRegisteredDevices[item_idx]
                    updated == ClassifyPushFactors(user_, FetchedFactors(outcome, body))
                    seen == UpdateUserObject(app_list, app_idx, item_idx, updated)
                IN /\ factor_fetch_log' = Append(factor_fetch_log,
                            [ app |-> app_idx, user |-> user_.id, outcome |-> outcome,
                              factors |-> body ])
                   /\ IF FactorsFetchReturns(outcome)
                      THEN /\ app_list' =
                                IF updated.userPushFactorExists
                                THEN [seen EXCEPT ![app_idx].usersTargetedForReEnrollment =
                                                      Append(@, updated)]
                                ELSE seen
                           /\ USER_ID_MAPPING' =
                                IF InUserTable(updated.id)
                                THEN DictSet(USER_ID_MAPPING, updated.id, updated)
                                ELSE USER_ID_MAPPING
                           \* line 299 of the driver bound its global to the
                           \* table get_user_mapping_table returned: one dict
                           /\ main_USER_ID_MAPPING' =
                                IF InUserTable(updated.id)
                                THEN DictSet(USER_ID_MAPPING, updated.id, updated)
                                ELSE main_USER_ID_MAPPING
                           /\ IF item_idx < Len(app_list[app_idx].usersNoRegisteredDevices)
                              THEN item_idx' = item_idx + 1 /\ UNCHANGED app_idx
                              ELSE item_idx' = 0 /\ app_idx' = app_idx + 1
                           /\ UNCHANGED <<pc, status, exit_code>>
                      ELSE /\ SysExit
                           /\ UNCHANGED <<pc, app_list, USER_ID_MAPPING, main_USER_ID_MAPPING,
                                          app_idx, item_idx>>
    /\ UNCHANGED <<pagedVars, unique_users, USER_DEVICE_MAPPING, temp_list, targeted_apps,
                   profile_fetch_log, okta_device_users_json, reenrollVars,
                   verifyVars, driverVars, notifierVars>>

\* find_app_users_no_device.py run as a script
InitAnalysis ==
    /\ pc = "fetch_all_applications"
    /\ status = "running"
    /\ exit_code = -1
    /\ endpoint \in AppCatalogues
    /\ next_page = 1
    /\ result_list = <<>>
    /\ requests_log = <<>>
    /\ returned = FALSE
    /\ ret = "get_app_ids_for_targeted_apps"
    /\ app_list = <<>>
    /\ unique_users = <<>>
    /\ USER_ID_MAPPING = <<>>
    /\ USER_DEVICE_MAPPING = <<>>
    /\ app_idx = 1
    /\ item_idx = 0
    /\ factor_fetch_log = <<>>
    /\ temp_list = <<>>
    /\ targeted_apps = [columns |-> <<>>, rows |-> <<>>]
    /\ main_USER_ID_MAPPING = <<>>
    /\ profile_fetch_log = <<>>
    /\ okta_device_users_json \in
            {NoFile, FileWith(JsonDump(<<>>)), FileWith(JsonDump(DeviceSnapshot))}
    /\ VerifyIdle
    /\ DriverIdle
    /\ ATTACHMENT_FILEPATH = "unset"
    /\ NotifierIdle
    /\ ReenrollIdle

NextAnalysis ==
    \/ fetch_all_applications
    \/ get_app_ids_for_targeted_apps
    \/ load_user_snapshot
    \/ fetch_users
    \/ get_user_mapping_table
    \/ load_device_snapshot
    \/ fetch_devices
    \/ fetch_device_users
    \/ dump_json_to_file
    \/ fetch_all_app_users
    \/ fetch_users_for_app
    \/ fetch_full_user_profiles
    \/ find_app_users_without_devices
    \/ find_users_needing_reenrollment
    \/ generate_unique_users_for_reenrollment

SpecAnalysis == InitAnalysis /\ [][NextAnalysis]_vars

-----------------------------------------------------------------------------
(* The verification run: execute_enrollment_verification_workflow *)

\* a roster row as load_user_list_csv returns it: the columns in file order
RosterRow(id, name, email) ==
    << <<"userId", id>>, <<"userFullName", name>>, <<"userEmail", email>> >>

\* the rows a roster is made of; u3 owns no device in any sample
VerifyRows ==
    { RosterRow("u1", "Ann Bee", "ab@siteone.com"),
      RosterRow("u2", "Tom Obar", "tobar@siteone.com"),
      RosterRow("u3", "Xi Yu", "xy@siteone.com") }

\* user_device_mapping.json as a run can find it: absent, holding {} or
\* holding an index
VerifySnapshots == { NoFile, FileWith(JsonDump(<<>>)), FileWith(JsonDump(DeviceSnapshot)) }

\* a mutant of CachedIndexMissing: a missing file is not an error
CachedIndexMissingFallsBack(flag, file) == FALSE

\* okta_enrollment_handler.py lines 166-174: the cached index is asked for
\* and the file is not there
CachedIndexMissing(flag, file) == flag /\ ~file.exists

\* lines 160-178: the index is loaded from the file when the flag is set,
\* a missing file being sys.exit(1) and a text json.load cannot read an
\* exception nothing catches; without an index the devices are fetched
execute_enrollment_verification_workflow ==
    /\ status = "running"
    /\ pc = "execute_enrollment_verification_workflow"
    /\ IF CachedIndexMissing(useCachedData, user_device_mapping_json)
       THEN /\ SysExit
            /\ UNCHANGED <<pc, pagedVars, item_idx, user_device_mapping_obj>>
       ELSE IF /\ useCachedData
               /\ user_device_mapping_json.exists
               /\ JsonLoadRaises(user_device_mapping_json.text)
       THEN /\ Uncaught
            /\ UNCHANGED <<pc, pagedVars, item_idx, user_device_mapping_obj>>
       ELSE LET loaded == IF useCachedData /\ user_device_mapping_json.exists
                          THEN PyList(JsonLoad(user_device_mapping_json.text))
                          ELSE PyNone
            IN /\ user_device_mapping_obj' = loaded
               /\ IF loaded.is_none \/ Len(loaded.list) = 0
                  THEN /\ CallPaged("fetch_devices", DeviceListings, "get_all_device_users_v2")
                       /\ item_idx' = 1
                  ELSE /\ pc' = "compare_users"
                       /\ UNCHANGED <<pagedVars, item_idx>>
               /\ UNCHANGED <<status, exit_code>>
    /\ UNCHANGED <<app_list, unique_users, USER_ID_MAPPING, USER_DEVICE_MAPPING, app_idx,
                   factor_fetch_log, analysisIoVars, reenrollVars, useCachedData,
                   user_device_mapping_json, user_enrollment_status_list, results_csv,
                   run_no, previous_status_list, roster_csv, driverVars, notifierVars>>

\* get_all_device_users_v2 (okta_device_functions.py lines 211-214), after
\* fetch_devices has returned: the owners of each device are fetched
get_all_device_users_v2 ==
    /\ DeviceBuildTurn("get_all_device_users_v2", "save_json_file")
    /\ UNCHANGED <<app_list, unique_users, USER_ID_MAPPING, app_idx, factor_fetch_log,
                   targeted_apps, main_USER_ID_MAPPING, profile_fetch_log,
                   okta_device_users_json, reenrollVars, verifyVars, driverVars, notifierVars>>

\* okta_enrollment_handler.py lines 152-153: open(filepath, 'w') empties the
\* file, then json.dumps(json_obj, jsonFileObj, indent=4) raises TypeError,
\* dumps taking one positional argument, before anything is written
SaveJsonText(json_obj) == <<>>

\* lines 178-179: the index built is the one in use, and save_json_file is
\* called on it; what it raises is logged (lines 155-157)
save_json_file ==
    /\ status = "running"
    /\ pc = "save_json_file"
    /\ user_device_mapping_obj' = PyList(USER_DEVICE_MAPPING)
    /\ user_device_mapping_json' = FileWith(SaveJsonText(USER_DEVICE_MAPPING))
    /\ pc' = "compare_users"
    /\ UNCHANGED <<status, exit_code, pagedVars, analysisVars, reenrollVars, useCachedData,
                   user_enrollment_status_list, results_csv, run_no, previous_status_list,
                   roster_csv, driverVars, notifierVars>>

\* a mutant of IsEnrolled: any user is enrolled once the index has a key
IsEnrolledWhenIndexHasKeys(user_, index) == Len(index) > 0

\* line 186: user['userId'] in user_device_mapping_obj
IsEnrolled(user_, index) == DictHas(index, DictGet(user_, "userId"))

\* lines 183-194: every row is updated with enrollmentStatus and appended
EnrollmentStatusList(rows, index) ==
    [i \in 1..Len(rows) |-> DictSet(rows[i], "enrollmentStatus", IsEnrolled(rows[i], index))]

\* the comparison loop; user.update changes the rows of the roster themselves
compare_users ==
    /\ status = "running"
    /\ pc = "compare_users"
    /\ user_enrollment_status_list' = EnrollmentStatusList(users, user_device_mapping_obj.list)
    /\ users' = user_enrollment_status_list'
    /\ pc' = "write_results"
    /\ UNCHANGED <<status, exit_code, pagedVars, analysisVars, template, user_idx, user,
                   factor_idx, new_factor_information, call_log, processed, useCachedData,
                   user_device_mapping_json, results_csv, run_no, previous_status_list,
                   user_device_mapping_obj, roster_csv, driverVars, notifierVars>>

\* str() of a cell as csv.DictWriter writes it: a bool as True or False
CsvCell(key, value) ==
    IF key = "enrollmentStatus" THEN (IF value THEN "True" ELSE "False") ELSE value

\* line 202: the keys of the first row are the field names
FieldNames(rows) == [k \in 1..Len(rows[1]) |-> rows[1][k][1]]

\* lines 204-206: the header, then one line per row with the cells in the
\* order of the field names
CsvText(rows) ==
    << FieldNames(rows) >>
    \o [i \in 1..Len(rows) |->
           [k \in 1..Len(FieldNames(rows)) |->
               CsvCell(FieldNames(rows)[k], DictGet(rows[i], FieldNames(rows)[k]))]]

\* lines 198-213: the result file is opened and written; with no row
\* user_enrollment_status_list[0] raises IndexError, which is sys.exit(1)
write_results ==
    /\ status = "running"
    /\ pc = "write_results"
    /\ IF Len(user_enrollment_status_list) = 0
       THEN /\ results_csv' = FileWith(<<>>)
            /\ SysExit
            /\ UNCHANGED pc
       ELSE /\ results_csv' = FileWith(CsvText(user_enrollment_status_list))
            /\ pc' = "done"
            /\ status' = "done"
            /\ exit_code' = 0
    /\ UNCHANGED <<pagedVars, analysisVars, reenrollVars, useCachedData,
                   user_device_mapping_json, user_enrollment_status_list, run_no,
                   previous_status_list, user_device_mapping_obj, roster_csv, driverVars, notifierVars>>

\* lines 352 and 398-401 of a following run: after a run that built the
\* index, the script is started on the same roster with --usecacheddevices,
\* which parse_args returns in args; the files are as the first run left
\* them.  A workflow that was called without the command line is called
\* again with useCachedData=True, and there is no args to parse.
following_run ==
    /\ status = "done"
    /\ pc = "done"
    /\ run_no = 1
    /\ Len(temp_list) > 0
    /\ run_no' = 2
    /\ useCachedData' = TRUE
    /\ args' = IF args.verifyenrollment
               THEN [args EXCEPT !.usecacheddevices = TRUE]
               ELSE args
    /\ previous_status_list' = user_enrollment_status_list
    /\ users' = roster_csv
    /\ user_enrollment_status_list' = <<>>
    /\ user_device_mapping_obj' = PyNone
    /\ USER_DEVICE_MAPPING' = <<>>
    /\ temp_list' = <<>>
    /\ item_idx' = 0
    /\ pc' = "execute_enrollment_verification_workflow"
    /\ status' = "running"
    /\ exit_code' = -1
    /\ endpoint' = <<>>
    /\ next_page' = 1
    /\ result_list' = <<>>
    /\ requests_log' = <<>>
    /\ returned' = FALSE
    /\ UNCHANGED <<ret, app_list, unique_users, USER_ID_MAPPING, app_idx, factor_fetch_log,
                   targeted_apps, main_USER_ID_MAPPING, profile_fetch_log,
                   okta_device_users_json, template, user_idx, user, factor_idx,
                   new_factor_information, call_log, processed, user_device_mapping_json,
                   results_csv, roster_csv, USER_CSV_PATH, ATTACHMENT_FILEPATH,
                   notifierVars>>

InitVerify ==
    /\ pc = "execute_enrollment_verification_workflow"
    /\ status = "running"
    /\ exit_code = -1
    /\ endpoint = <<>>
    /\ next_page = 1
    /\ result_list = <<>>
    /\ requests_log = <<>>
    /\ returned = FALSE
    /\ ret = "return"
    /\ app_list = <<>>
    /\ unique_users = <<>>
    /\ USER_ID_MAPPING = <<>>
    /\ USER_DEVICE_MAPPING = <<>>
    /\ app_idx = 1
    /\ item_idx = 0
    /\ factor_fetch_log = <<>>
    /\ AnalysisIoIdle
    /\ template = "exists"
    /\ roster_csv \in SeqsUpTo(VerifyRows, MaxRoster)
    /\ users = roster_csv
    /\ user_idx = 1
    /\ user = NoUser
    /\ factor_idx = 1
    /\ new_factor_information = "unset"
    /\ call_log = <<>>
    /\ processed = <<>>
    /\ useCachedData \in BOOLEAN
    /\ user_device_mapping_json \in VerifySnapshots
    /\ user_enrollment_status_list = <<>>
    /\ results_csv = NoFile
    /\ run_no = 1
    /\ previous_status_list = <<>>
    /\ user_device_mapping_obj = PyNone
    /\ DriverIdle
    /\ ATTACHMENT_FILEPATH = "unset"
    /\ NotifierIdle

NextVerify ==
    \/ execute_enrollment_verification_workflow
    \/ fetch_devices
    \/ get_all_device_users_v2
    \/ save_json_file
    \/ compare_users
    \/ write_results
    \/ following_run

SpecVerify == InitVerify /\ [][NextVerify]_vars

-----------------------------------------------------------------------------
(* The script okta_enrollment_handler.py: the command line, the roster, the *)
(* workflow chosen                                                          *)

\* lines 247-266: the template path of the notification workflow is checked
\* before the loop
execute_proactive_notification_workflow ==
    /\ status = "running"
    /\ pc = "execute_proactive_notification_workflow"
    /\ IF template = "unset"
       THEN /\ Uncaught
            /\ UNCHANGED pc
       ELSE IF ~PathExists(template)
       THEN /\ SysExit
            /\ UNCHANGED pc
       ELSE IF Len(users) = 0
       THEN /\ pc' = "done"
            /\ status' = "done"
            /\ exit_code' = 0
       ELSE /\ pc' = "fetch_user"
            /\ UNCHANGED <<status, exit_code>>
    /\ UNCHANGED <<pagedVars, analysisVars, reenrollVars, verifyVars, driverVars, notifierVars>>

\* the paths a roster can be looked for at: a valid roster file, no file
RosterPaths == {"roster.csv", "missing.csv"}

\* lines 365-368: the name users is bound by the branch of --path only; the
\* branch of USER_CSV_PATH binds the name user
UsersBound == args.path # "unset"

\* the path load_user_list_csv is called with
RosterPathUsed == IF args.path # "unset" THEN args.path ELSE USER_CSV_PATH

\* the workflow lines 386-406 call
WorkflowChosen ==
    IF args.notification THEN "execute_proactive_notification_workflow"
    ELSE IF args.verifyenrollment THEN "execute_enrollment_verification_workflow"
    ELSE "execute_reenrollment_workflow"

\* lines 351-406: --example ends the script; the roster is loaded from --path
\* or else from USER_CSV_PATH, a missing file or no path at all being
\* sys.exit(1); then the workflow is called with users=users, which raises
\* NameError when users was never bound
main ==
    /\ status = "running"
    /\ pc = "main"
    /\ IF args.example \/ (args.path = "unset" /\ USER_CSV_PATH = "unset")
       THEN /\ SysExit
            /\ UNCHANGED <<pc, users, useCachedData>>
       ELSE IF RosterPathUsed = "missing.csv"
       THEN /\ SysExit
            /\ UNCHANGED <<pc, users, useCachedData>>
       ELSE IF args.notification /\ args.date = "unset"
       THEN \* lines 388-391: the error is logged and the script ends
            /\ users' = IF UsersBound THEN roster_csv ELSE users
            /\ pc' = "done"
            /\ status' = "done"
            /\ exit_code' = 0
            /\ UNCHANGED useCachedData
       ELSE IF ~UsersBound
       THEN /\ Uncaught
            /\ UNCHANGED <<pc, users, useCachedData>>
       ELSE /\ users' = roster_csv
            /\ useCachedData' = (args.verifyenrollment /\ args.usecacheddevices)
            /\ pc' = WorkflowChosen
            /\ UNCHANGED <<status, exit_code>>
    /\ UNCHANGED <<pagedVars, analysisVars, template, user_idx, user, factor_idx,
                   new_factor_information, call_log, processed, user_device_mapping_json,
                   user_enrollment_status_list, results_csv, run_no, previous_status_list,
                   user_device_mapping_obj, roster_csv, driverVars, notifierVars>>

\* the command lines the script is started with
ArgSamples ==
    { Args(p, FALSE, FALSE, FALSE, "unset", FALSE) : p \in {"unset"} \cup RosterPaths }
    \cup { Args(p, TRUE, FALSE, FALSE, "2025-01-31", FALSE) : p \in {"unset", "roster.csv"} }
    \cup { Args(p, FALSE, TRUE, c, "unset", FALSE) : p \in {"unset", "roster.csv"},
                                                     c \in BOOLEAN }
    \cup { Args("roster.csv", TRUE, FALSE, FALSE, "unset", FALSE),
           Args("roster.csv", FALSE, FALSE, FALSE, "unset", TRUE) }

InitHandler ==
    /\ pc = "main"
    /\ status = "running"
    /\ exit_code = -1
    /\ endpoint = <<>>
    /\ next_page = 1
    /\ result_list = <<>>
    /\ requests_log = <<>>
    /\ returned = FALSE
    /\ ret = "return"
    /\ app_list = <<>>
    /\ unique_users = <<>>
    /\ USER_ID_MAPPING = <<>>
    /\ USER_DEVICE_MAPPING = <<>>
    /\ app_idx = 1
    /\ item_idx = 0
    /\ factor_fetch_log = <<>>
    /\ AnalysisIoIdle
    /\ args \in ArgSamples
    /\ NotifierIdle
    /\ USER_CSV_PATH \in {"unset"} \cup RosterPaths
    /\ ATTACHMENT_FILEPATH \in AttachmentPaths
    /\ roster_csv \in IF args.verifyenrollment
                      THEN SeqsUpTo(VerifyRows, MaxRoster)
                      ELSE SeqsUpTo(RosterRows, MaxRoster)
    /\ template = "exists"
    /\ users = <<>>
    /\ user_idx = 1
    /\ user = NoUser
    /\ factor_idx = 1
    /\ new_factor_information = "unset"
    /\ call_log = <<>>
    /\ processed = <<>>
    /\ useCachedData = FALSE
    /\ user_device_mapping_json \in {NoFile, FileWith(JsonDump(DeviceSnapshot))}
    /\ user_enrollment_status_list = <<>>
    /\ results_csv = NoFile
    /\ run_no = 1
    /\ previous_status_list = <<>>
    /\ user_device_mapping_obj = PyNone

NextHandler ==
    \/ main
    \/ execute_proactive_notification_workflow
    \/ NextReenroll
    \/ NextVerify

SpecHandler == InitHandler /\ [][NextHandler]_vars

-----------------------------------------------------------------------------
(* Claims about the analysis run *)

\* the users without device of the application have been determined
GapAnalysed(app) == "usersNoRegisteredDevices" \in DOMAIN app

\* C1: find_app_users_without_devices sets usersNoRegisteredDevices of every
\* application to the subsequence of its members, in membership order, whose
\* id is not a key of the device-ownership index.
C1_NoDeviceUsersAreTheMembersOffIndex ==
    \A a \in 1..Len(app_list) :
        GapAnalysed(app_list[a]) =>
            app_list[a].usersNoRegisteredDevices =
                SelectSeq(app_list[a].users,
                          LAMBDA m : m.id \notin DictKeys(USER_DEVICE_MAPPING))

\* an application with a member in the index and then a member off it, and
\* an application none of whose members is in the index
C1_Witness ==
    /\ pc = "find_users_needing_reenrollment"
    /\ \E a, b \in 1..Len(app_list) :
        /\ GapAnalysed(app_list[a])
        /\ Len(app_list[a].users) = 2
        /\ app_list[a].users[1].id \in DictKeys(USER_DEVICE_MAPPING)
        /\ app_list[a].users[2].id \notin DictKeys(USER_DEVICE_MAPPING)
        /\ Len(app_list[a].usersNoRegisteredDevices) = 1
        /\ Len(app_list[b].users) = 2
        /\ Len(app_list[b].usersNoRegisteredDevices) = 2

\* the ids of the members of an application
MemberIds(app) == { app.users[i].id : i \in 1..Len(app.users) }

\* a factor list as fetched holds a push factor
HoldsPushFactor(factors) ==
    \E i \in 1..Len(factors) : StrContains(Str_push, factors[i].factorType)

\* C2: at the end of the analysis run a user id is a key of the roster if and
\* only if the user is a member of a resolved application, is absent from the
\* device-ownership index and had a factor list fetched that holds a push
\* factor; and factors are fetched only for members without device.
C2_RosterIsNoDevicePushMembers ==
    /\ \A i \in 1..Len(factor_fetch_log) :
        LET e == factor_fetch_log[i] IN
        /\ e.user \in MemberIds(app_list[e.app])
        /\ e.user \notin DictKeys(USER_DEVICE_MAPPING)
    /\ status = "done" =>
        DictKeys(unique_users) =
            { id \in UNION { MemberIds(app_list[a]) : a \in 1..Len(app_list) } :
                /\ id \notin DictKeys(USER_DEVICE_MAPPING)
                /\ \E i \in 1..Len(factor_fetch_log) :
                    /\ factor_fetch_log[i].user = id
                    /\ factor_fetch_log[i].outcome = "ok"
                    /\ HoldsPushFactor(factor_fetch_log[i].factors) }

\* a finished run with a member that has a device, a member without device
\* and without push factor, and a member on the roster
C2_Witness ==
    /\ status = "done"
    /\ Len(unique_users) > 0
    /\ \E a \in 1..Len(app_list) :
        \E id \in MemberIds(app_list[a]) : id \in DictKeys(USER_DEVICE_MAPPING)
    /\ \E i \in 1..Len(factor_fetch_log) :
        /\ factor_fetch_log[i].user \notin DictKeys(unique_users)
        /\ ~HoldsPushFactor(factor_fetch_log[i].factors)

\* the index is being built, or has just been built, from the devices in
\* result_list; temp_list says which owner fetches returned the device
BuildingIndex == pc \in {"loop_get_all_device_users", "dump_json_to_file"}

\* the owner fetch of the i-th device succeeded
OwnerFetchSucceeded(i) == i <= Len(temp_list) /\ temp_list[i] # "None"

\* the ids of the owners read for a device
OwnersRead(device) ==
    IF "users" \in DOMAIN device
    THEN { device.users.list[j].id : j \in 1..Len(device.users.list) }
    ELSE {}

\* C18: after a fresh build the keys of the index are the ids of the users
\* returned as owner of a device whose owner fetch succeeded, never a device
\* id; the value of a key lists the devices owned by that user in fetch
\* order; a device without owner adds no key and has users = None and
\* managementStatus = "N/A".
C18_IndexInvertsDeviceOwnership ==
    pc = "dump_json_to_file" =>
        LET fetched == { i \in 1..Len(result_list) : OwnerFetchSucceeded(i) }
            owned_by(id) == SelectSeq([i \in 1..Len(result_list) |-> i],
                                LAMBDA i : i \in fetched /\ id \in OwnersRead(result_list[i]))
        IN /\ DictKeys(USER_DEVICE_MAPPING) =
                    UNION { OwnersRead(result_list[i]) : i \in fetched }
           /\ \A i \in 1..Len(result_list) : result_list[i].id \notin DictKeys(USER_DEVICE_MAPPING)
           /\ \A n \in 1..Len(USER_DEVICE_MAPPING) :
                USER_DEVICE_MAPPING[n][2] =
                    [j \in 1..Len(owned_by(USER_DEVICE_MAPPING[n][1])) |->
                        result_list[owned_by(USER_DEVICE_MAPPING[n][1])[j]]]
           /\ \A i \in fetched :
                OwnersRead(result_list[i]) = {} =>
                    /\ result_list[i].users = PyNone
                    /\ result_list[i].managementStatus = "N/A"

\* C19: a failed owner fetch of one device does not end the run, and the
\* device contributes no entry at all to the index.
C19_FailedDeviceContributesNothing ==
    BuildingIndex =>
        /\ status = "running"
        /\ \A i \in 1..Len(temp_list) :
            temp_list[i] = "None" =>
                \A n \in 1..Len(USER_DEVICE_MAPPING) :
                    \A j \in 1..Len(USER_DEVICE_MAPPING[n][2]) :
                        USER_DEVICE_MAPPING[n][2][j].id # result_list[i].id

\* the place of the last application of the catalogue with that label
LastWithLabel(all_apps, label) ==
    CHOOSE i \in 1..Len(all_apps) :
        /\ all_apps[i].label = label
        /\ \A k \in (i + 1)..Len(all_apps) : all_apps[k].label # label

\* C20: get_app_ids_for_targeted_apps returns, in CSV row order, one
\* {name, id} entry for each row whose AppName equals, case-sensitively, the
\* label of an application, and none for the other rows; an unmatched row
\* does not end the run; of several applications with one label the id of
\* the last one of the list is used.
\* The target CSV is the file with the header AppName, with any rows or
\* none: a run that ends in this step has loaded no DataFrame with the column
\* AppName; the step that loads one leaves the run running and hands over to
\* the next stage; and the run that has left the step holds that list.
C20_ResolvesMatchedRowsLastLabelWins ==
    /\ []( ( /\ pc = "get_app_ids_for_targeted_apps"
             /\ status # "running" ) => targeted_apps.columns # <<"AppName">> )
    /\ [][ ( /\ pc = "get_app_ids_for_targeted_apps"
             /\ targeted_apps'.columns = <<"AppName">> )
           => ( /\ status' = "running"
                /\ pc' = "get_user_mapping_table" ) ]_vars
    /\ []( pc = "get_user_mapping_table" =>
            LET all_apps == result_list
                matched == SelectSeq(targeted_apps.rows,
                               LAMBDA name : \E i \in 1..Len(all_apps) : all_apps[i].label = name)
            IN /\ targeted_apps.columns = <<"AppName">>
               /\ Len(app_list) = Len(matched)
               /\ \A j \in 1..Len(matched) :
                    /\ app_list[j].name = matched[j]
                    /\ app_list[j].id = all_apps[LastWithLabel(all_apps, matched[j])].id
                    /\ DOMAIN app_list[j] = {"name", "id"} )

\* a row in another case is skipped, the row after it is resolved, and to
\* the later of two applications labelled A
C20_Witness ==
    /\ pc = "get_user_mapping_table"
    /\ targeted_apps.rows = <<"a", "A">>
    /\ Len(result_list) = 3
    /\ Len(app_list) = 1
    /\ app_list[1].id = "0oa3"

\* C17: whenever a user index is available, loaded from okta_users.json or
\* freshly fetched, no single-user fetch is issued for a member whose id is
\* in that index; only ids missing from it are fetched one by one.
C17_IndexedMembersAreNotFetched ==
    Len(main_USER_ID_MAPPING) > 0 =>
        \A i \in 1..Len(profile_fetch_log) :
            ~DictHas(main_USER_ID_MAPPING, profile_fetch_log[i])

\* this run has built the index and written it to okta_device_users.json
IndexWritten ==
    /\ Len(temp_list) > 0
    /\ pc \notin {"loop_get_all_device_users", "dump_json_to_file"}

\* the member lists an application can have
MemberLists ==
    { <<>>, <<AppUser("u1"), AppUser("u2")>>, <<AppUser("u2"), AppUser("u3")>>,
      <<AppUser("u1"), AppUser("u1")>> }

\* C15: the index dump_json_to_file wrote to okta_device_users.json, read
\* back by load_json_file as a later run does, equals the index written,
\* and the gap analysis on the reloaded index finds the same no-device
\* users as on the index written.
C15_DeviceIndexSurvivesTheFile ==
    IndexWritten =>
        /\ okta_device_users_json.exists
        /\ ~JsonLoadRaises(okta_device_users_json.text)
        /\ JsonLoad(okta_device_users_json.text) = USER_DEVICE_MAPPING
        /\ \A members \in MemberLists :
              UsersNoRegisteredDevices(members, JsonLoad(okta_device_users_json.text),
                                       Len(members))
                = UsersNoRegisteredDevices(members, USER_DEVICE_MAPPING, Len(members))

\* an index in which a user owns two devices and a device has two owners
\* has been written
C15_Witness ==
    /\ IndexWritten
    /\ okta_device_users_json.exists
    /\ \E i \in 1..Len(USER_DEVICE_MAPPING) : Len(USER_DEVICE_MAPPING[i][2]) = 2
    /\ \E i \in 1..Len(USER_DEVICE_MAPPING) :
          \E d \in 1..Len(USER_DEVICE_MAPPING[i][2]) :
             Len(USER_DEVICE_MAPPING[i][2][d].users.list) = 2

\* C4: no application name occurs more than once in the appsInScope of a
\* roster entry.
C4_NoAppTwiceInAppsInScope ==
    \A i \in 1..Len(unique_users) :
        LET apps == unique_users[i][2].appsInScope IN
        \A j, k \in 1..Len(apps) : j # k => apps[j] # apps[k]

\* C7: a failed page request of a bulk paged fetch ends the run at that
\* point with a non-zero exit: it is the last request, the run has exited
\* with status 1 inside the fetcher that issued it, and no roster exists.
C7_FailedPageRequestEndsTheRun ==
    \A i \in 1..Len(requests_log) :
        requests_log[i].outcome # "ok" =>
            /\ i = Len(requests_log)
            /\ status = "exited"
            /\ exit_code = 1
            /\ pc = requests_log[i].fetcher
            /\ next_page = requests_log[i].page
            /\ unique_users = <<>>

\* the second page of an application's members fails after the first one
\* was fetched
C7_Witness ==
    /\ status = "exited"
    /\ pc = "fetch_users_for_app"
    /\ Len(requests_log) = 2
    /\ requests_log[2].outcome = "error_field"
    /\ Len(result_list) > 0

\* the stages of the analysis run that follow the build or the load of the
\* device-ownership index (driver lines 312-318)
AfterIndexStages ==
    {"fetch_all_app_users", "fetch_users_for_app", "fetch_full_user_profiles",
     "find_app_users_without_devices", "find_users_needing_reenrollment",
     "generate_unique_users_for_reenrollment", "done"}

\* C28: once the device-ownership index has been built or loaded, no step of
\* the stages that follow (membership fetch, find_app_users_without_devices,
\* find_users_needing_reenrollment, generate_unique_users_for_reenrollment)
\* changes it: its keys and every key's device list stay what they were.
C28_LaterStagesLeaveTheIndex ==
    [][(pc \in AfterIndexStages) => (USER_DEVICE_MAPPING' = USER_DEVICE_MAPPING)]_vars

\* the run has ended with an index that is not empty, after a gap analysis
\* that found a member on the index and a member off it
C28_Witness ==
    /\ pc = "done"
    /\ status = "done"
    /\ Len(USER_DEVICE_MAPPING) > 0
    /\ \E a \in 1..Len(app_list) :
           /\ GapAnalysed(app_list[a])
           /\ Len(app_list[a].usersNoRegisteredDevices) > 0
           /\ Len(app_list[a].usersNoRegisteredDevices) < Len(app_list[a].users)

-----------------------------------------------------------------------------
(* Claims about the re-enrollment run *)

\* the unenroll calls issued for the user of the current row
UnenrollCalls == SelectSeq(call_log, LAMBDA c : c.op = "unenroll_user_factor")

\* C8: unenroll_all_user_push_factors calls unenroll once per factor of
\* userPushFactorList, in list order, and every factor whose call was issued
\* is in exactly one of the two result lists: the successful one when its call
\* succeeded, the failed one when its call failed, whatever the failure was;
\* so a failed call never leaves the factors after it uncalled.
C8_UnenrollIsolatesFailures ==
    pc \in {"unenroll_user_factor", "enroll_new_push_factor", "send_okta_enrollment_email_v2"} =>
        /\ Len(UnenrollCalls) <= Len(user.userPushFactorList)
        /\ \A i \in 1..Len(UnenrollCalls) :
            LET id == user.userPushFactorList[i].id
                in_ok == \E j \in 1..Len(user.userSuccessfulUnenrolledFactors) :
                            user.userSuccessfulUnenrolledFactors[j].id = id
                in_failed == \E j \in 1..Len(user.userFailedUnenrolledFactors) :
                            user.userFailedUnenrolledFactors[j].id = id
            IN /\ UnenrollCalls[i].target = id
               /\ in_ok = (UnenrollCalls[i].outcome = "ok")
               /\ in_failed = (UnenrollCalls[i].outcome # "ok")
        /\ (pc # "unenroll_user_factor" /\ status # "crashed")
              => Len(UnenrollCalls) = Len(user.userPushFactorList)

\* C9: every unenroll or enroll call that fails remotely, by an HTTP error
\* status, a timeout or any other request or connection error, returns False
\* and does not raise.
C9_FailedCallsReturnFalse ==
    \A i \in 1..Len(call_log) :
        (/\ call_log[i].op \in {"unenroll_user_factor", "enroll_new_push_factor"}
         /\ call_log[i].outcome # "ok")
            => call_log[i].result = "False"

\* C11: with the email template file missing the re-enrollment run ends with
\* a non-zero exit before the per-user loop: no lookup, factor fetch,
\* unenroll, enroll or email call is issued for any roster user; and the
\* check of the template is made before the first user only.
C11_MissingTemplateEndsBeforeLoop ==
    /\ template = "missing" =>
        /\ pc = "execute_reenrollment_workflow"
        /\ call_log = <<>>
        /\ processed = <<>>
        /\ user = NoUser
        /\ status \in {"running", "exited"}
        /\ status = "exited" => exit_code = 1
    /\ pc = "execute_reenrollment_workflow" =>
        user_idx = 1 /\ call_log = <<>> /\ processed = <<>>

\* the calls of fetch_user_factors for the roster row the loop is at
FactorsCalls == { i \in 1..Len(call_log) : call_log[i].op = "fetch_user_factors" }

\* C21: when the factors request answers HTTP 404, find_user_push_factor
\* returns the user with userPushFactorExists false and userPushFactorList
\* and allUserFactors empty, and the run goes on; any other failure of the
\* request (another HTTP error status, a timeout, a transport error) ends
\* the run with a non-zero exit.
C21_OnlyNotFoundMeansNoFactors ==
    \A i \in FactorsCalls :
        /\ call_log[i].outcome = "http_404" =>
            /\ "userPushFactorExists" \in DOMAIN user
            /\ user.userPushFactorExists = FALSE
            /\ user.userPushFactorList = <<>>
            /\ user.allUserFactors = <<>>
            /\ i = Len(call_log) => status = "running"
        /\ call_log[i].outcome \in {"http_error", "timeout", "connection_error"} =>
            /\ i = Len(call_log)
            /\ status = "exited"
            /\ exit_code = 1
            /\ pc = "find_user_push_factor"

\* a 404 for the first roster user of two, and the second user is reached
C21_Witness ==
    /\ Len(processed) = 1
    /\ processed[1].factors_outcome = "http_404"
    /\ pc = "find_user_push_factor"
    /\ status = "running"

\* the factor record carries key material
CarriesKeys(factor) == DictHas(factor.profile, "keys")

\* the factor records the user dict of the row holds
RetainedFactors ==
    UNION { Range(user[f]) :
              f \in DOMAIN user \cap {"userPushFactorList", "allUserFactors",
                                      "userSuccessfulUnenrolledFactors",
                                      "userFailedUnenrolledFactors"} }

\* C22: no factor record that still carries its keys is retained on a user
\* record: not among the push factors of userPushFactorList, not among the
\* factors of allUserFactors, not in the lists of unenrolled factors.
C22_NoKeysOnRetainedFactors ==
    \A factor \in RetainedFactors : ~CarriesKeys(factor)

\* the deliveries attempted for the roster row the loop is at
SendCalls == { i \in 1..Len(call_log) : call_log[i].op = "send_okta_enrollment_email_v2" }

\* C24: when the delivery of the email to a roster user fails, the run ends
\* there with a non-zero exit: the delivery is not tried again, and no call
\* is made for a later roster user.
C24_FailedDeliveryEndsTheRun ==
    /\ Cardinality(SendCalls) <= 1
    /\ \A i \in SendCalls :
         call_log[i].outcome = "fail" =>
            /\ i = Len(call_log)
            /\ status = "exited"
            /\ exit_code = 1
            /\ pc = "send_okta_enrollment_email_v2"
            /\ Len(processed) = user_idx - 1

\* the delivery to the first of two roster users has failed
C24_Witness ==
    /\ status = "exited"
    /\ Len(users) = 2
    /\ user_idx = 1
    /\ SendCalls # {}
    /\ call_log[Len(call_log)].outcome = "fail"

\* the run has ended on the missing template with users on the roster
C11_Witness ==
    /\ template = "missing"
    /\ status = "exited"
    /\ exit_code = 1
    /\ Len(users) = MaxRoster

\* fetch_user has been called for the roster row the loop is at
FetchUserCalled ==
    \/ pc = "fetch_user" /\ status # "running"
    \/ pc \in {"find_user_push_factor", "unenroll_all_user_push_factors",
               "unenroll_user_factor", "enroll_new_push_factor",
               "send_okta_enrollment_email_v2"}

\* q is e with its first two characters uppercased and the rest unchanged
IsCaseRuleQuery(q, e) ==
    /\ Len(q) = Len(e)
    /\ \A i \in 1..Len(e) : q[i] = IF i <= 2 THEN UpperChar(e[i]) ELSE e[i]

\* C12: for every roster email fetch_user issues the provider lookup query
\* with the first two characters uppercased and the others unchanged
\* (ab@example.com is looked up as AB@example.com).
C12_LookupQueryUppercasesFirstTwo ==
    FetchUserCalled =>
        /\ Len(call_log) >= 1
        /\ call_log[1].op = "fetch_user"
        /\ IsCaseRuleQuery(call_log[1].target, users[user_idx].userEmail)

\* C10: the enrollment email is sent to a roster user only if the enroll call
\* for that user succeeded.
C10_NotifiedOnlyFromEnrolled ==
    \A i \in 1..Len(processed) : processed[i].notified => processed[i].enrolled


\* the places of the enroll requests and of the unenroll calls among the
\* calls of the row
EnrollCalls == { i \in 1..Len(call_log) : call_log[i].op = "enroll_new_push_factor" }
UnenrollPlaces == { i \in 1..Len(call_log) : call_log[i].op = "unenroll_user_factor" }

\* C29: for a roster user the re-enrollment workflow takes up to the enroll
\* stage, exactly one enroll request is issued, for a factor of type push
\* and provider OKTA of that user, and it comes after the unenroll calls of
\* the user, one per push factor found, have all returned, whatever their
\* number and their outcomes.
C29_OneEnrollAfterTheUnenrolls ==
    /\ Cardinality(EnrollCalls) <= 1
    /\ \A e \in EnrollCalls :
           /\ call_log[e].payload = [factorType |-> "push", provider |-> "OKTA"]
           /\ call_log[e].target = user.id
           /\ \A u \in UnenrollPlaces : u < e
           /\ Cardinality(UnenrollPlaces) = Len(user.userPushFactorList)
           /\ \A u \in UnenrollPlaces : call_log[u].result \in {"True", "False"}
    /\ (pc = "enroll_new_push_factor" /\ status = "running") =>
           /\ EnrollCalls = {}
           /\ Cardinality(UnenrollPlaces) = Len(user.userPushFactorList)
    /\ (pc = "send_okta_enrollment_email_v2" /\ ~args.notification) =>
           Cardinality(EnrollCalls) = 1

\* three push factors: one unenroll call failed, the enroll request went out
\* after the third
C29_Witness ==
    /\ pc = "send_okta_enrollment_email_v2"
    /\ Cardinality(UnenrollPlaces) = 3
    /\ \E u \in UnenrollPlaces : call_log[u].result = "False"
    /\ \E u \in UnenrollPlaces : call_log[u].result = "True"
    /\ EnrollCalls = {Len(call_log)}

-----------------------------------------------------------------------------
(* Claims about the verification run *)

\* the comparison loop of the verification run has run
Compared == pc \in {"write_results", "done"}

\* the cells of the result line of a roster row
ResultLine(row, enrolled) ==
    [k \in 1..Len(row) |-> row[k][2]] \o << IF enrolled THEN "True" ELSE "False" >>

\* C13: for a non-empty roster and the index the verification run obtained,
\* the result has exactly one row per roster user, in roster order, with the
\* roster fields unchanged plus enrollmentStatus, which is true if and only
\* if the userId of the row is a key of the index; the file written holds
\* these rows.
C13_OneRowPerRosterUser ==
    (Compared /\ Len(roster_csv) > 0) =>
        LET index == user_device_mapping_obj.list
            enrolled(i) == DictGet(roster_csv[i], "userId") \in DictKeys(index)
        IN /\ Len(user_enrollment_status_list) = Len(roster_csv)
           /\ \A i \in 1..Len(roster_csv) :
                /\ DictRemove(user_enrollment_status_list[i], "enrollmentStatus")
                     = roster_csv[i]
                /\ DictHas(user_enrollment_status_list[i], "enrollmentStatus")
                /\ DictGet(user_enrollment_status_list[i], "enrollmentStatus") = enrolled(i)
           /\ pc = "done" =>
                /\ results_csv.exists
                /\ Len(results_csv.text) = Len(roster_csv) + 1
                /\ \A i \in 1..Len(roster_csv) :
                     results_csv.text[i + 1] = ResultLine(roster_csv[i], enrolled(i))

\* a result of two rows has been written, the first user enrolled and the
\* second not
C13_Witness ==
    /\ pc = "done"
    /\ Len(roster_csv) = 2
    /\ Len(user_device_mapping_obj.list) > 0
    /\ results_csv.exists
    /\ results_csv.text[2][4] = "True"
    /\ results_csv.text[3][4] = "False"

\* C14: with useCachedData true and user_device_mapping.json absent the
\* verification run ends with a non-zero exit, no device is fetched, no
\* result is written, and the index is not built fresh instead.
C14_MissingSnapshotEndsTheRun ==
    (useCachedData /\ ~user_device_mapping_json.exists) =>
        /\ pc = "execute_enrollment_verification_workflow"
        /\ status \in {"running", "exited"}
        /\ status = "exited" => exit_code = 1
        /\ requests_log = <<>>
        /\ temp_list = <<>>
        /\ USER_DEVICE_MAPPING = <<>>
        /\ user_enrollment_status_list = <<>>
        /\ results_csv = NoFile

\* the run has ended on the missing snapshot with users on the roster
C14_Witness ==
    /\ useCachedData
    /\ ~user_device_mapping_json.exists
    /\ status = "exited"
    /\ exit_code = 1
    /\ Len(roster_csv) = MaxRoster

\* the run has built the index fresh and called save_json_file on it
FreshIndexSaved ==
    /\ run_no = 1
    /\ Len(temp_list) > 0
    /\ pc \in {"compare_users", "write_results", "done"}

\* the enrollmentStatus of every row, in order
StatusColumn(rows) == [i \in 1..Len(rows) |-> DictGet(rows[i], "enrollmentStatus")]

\* C16: after a verification run that built the index fresh,
\* user_device_mapping.json holds that index; a following run with
\* useCachedData on the same roster loads the file, fetches no device, and
\* reports the enrollmentStatus of the first run for every user.
C16_FollowingRunLoadsTheSnapshot ==
    /\ FreshIndexSaved =>
        /\ user_device_mapping_json.exists
        /\ ~JsonLoadRaises(user_device_mapping_json.text)
        /\ JsonLoad(user_device_mapping_json.text) = user_device_mapping_obj.list
    /\ (run_no = 2 /\ useCachedData) =>
        /\ status \in {"running", "done"}
        /\ requests_log = <<>>
        /\ temp_list = <<>>
        /\ pc = "done" =>
             StatusColumn(user_enrollment_status_list) = StatusColumn(previous_status_list)

-----------------------------------------------------------------------------
(* Claims about the token of the notifier *)

\* fetched_timestamp + expires_in of the token held
Expiry == DictGet(OAUTH_TOKEN, "fetched_timestamp") + DictGet(OAUTH_TOKEN, "expires_in")

\* C27, as stated: when the expiry of the token held, fetched_timestamp +
\* expires_in, is already in the past, is_token_expired returns False and
\* validate_token keeps the token instead of fetching a new one.
C27_ExpiredTokenKept ==
    [][(validate_token /\ OAUTH_TOKEN # <<>> /\ Expiry < current_time)
           => /\ is_token_expired(OAUTH_TOKEN, current_time) = FALSE
              /\ OAUTH_TOKEN' = OAUTH_TOKEN
              /\ oauth_requests' = oauth_requests]_vars

\* C27, amended: is_token_expired returns True exactly when the expiry of the
\* token held is before the current time; validate_token then requests a new
\* token, and the run either holds the token fetched at the current time or
\* has ended; a token whose expiry has not passed is kept and no request is
\* made.
C27_ExpiredTokenReplaced ==
    [][(validate_token /\ OAUTH_TOKEN # <<>>)
           => /\ is_token_expired(OAUTH_TOKEN, current_time) = (Expiry < current_time)
              /\ IF Expiry < current_time
                 THEN \/ /\ status' = "running"
                         /\ oauth_requests' = oauth_requests + 1
                         /\ DictGet(OAUTH_TOKEN', "fetched_timestamp") = current_time
                      \/ /\ status' = "exited"
                         /\ exit_code' = 1
                         /\ OAUTH_TOKEN' = OAUTH_TOKEN
                 ELSE /\ OAUTH_TOKEN' = OAUTH_TOKEN
                      /\ oauth_requests' = oauth_requests
                      /\ status' = "running"]_vars

\* a second token has been fetched: the first one had expired when
\* validate_token was called
C27_Witness ==
    /\ status = "running"
    /\ oauth_requests = 2
    /\ OAUTH_TOKEN # <<>>
    /\ DictGet(OAUTH_TOKEN, "fetched_timestamp") = current_time
    /\ current_time >= 2

-----------------------------------------------------------------------------
(* Claims about the script okta_enrollment_handler.py *)

\* the script was started without --path, USER_CSV_PATH names a roster file
RosterFromEnvironment ==
    /\ args.path = "unset"
    /\ USER_CSV_PATH = "roster.csv"
    /\ ~args.example

\* C23: started without --path and with USER_CSV_PATH naming a valid roster
\* file, the script loads the roster from that path and runs the workflow
\* chosen on it, as with --path: the start of the script does not end the
\* run, and the workflow is entered with the rows of the file.
C23_RosterFromEnvironmentRuns ==
    RosterFromEnvironment =>
        /\ pc = "main" => status = "running"
        /\ pc = WorkflowChosen => users = roster_csv

-----------------------------------------------------------------------------
(* Claims about the aggregator *)

\* the ids of the users in the targeted list of application a
TargetedIds(a) ==
    { a.usersTargetedForReEnrollment[k].id : k \in 1..Len(a.usersTargetedForReEnrollment) }

\* the names of the applications of apps whose targeted list holds user id
AppsTargeting(apps, id) ==
    { apps[a].name : a \in { b \in 1..Len(apps) : id \in TargetedIds(apps[b]) } }

\* C3: the roster generate_unique_users_for_reenrollment returns has exactly
\* one entry per distinct user id found in any application's targeted list,
\* each entry's userId is its key, and its appsInScope is non-empty and, as a
\* set, is the set of names of the applications whose targeted list holds
\* the user.
C3_RosterOneEntryPerTargetedUser ==
    pc = "done" =>
        /\ DictKeys(unique_users) = UNION { TargetedIds(app_list[a]) : a \in 1..Len(app_list) }
        /\ \A i, j \in 1..Len(unique_users) :
               unique_users[i][1] = unique_users[j][1] => i = j
        /\ \A i \in 1..Len(unique_users) :
               /\ unique_users[i][2].userId = unique_users[i][1]
               /\ Len(unique_users[i][2].appsInScope) > 0
               /\ Range(unique_users[i][2].appsInScope)
                      = AppsTargeting(app_list, unique_users[i][1])

\* two applications with different names target one user, another user is
\* targeted by one of them only
C3_Witness ==
    /\ pc = "done"
    /\ Len(unique_users) = 2
    /\ \E i \in 1..Len(unique_users) : Range(unique_users[i][2].appsInScope) = {"A", "B"}
    /\ \E i \in 1..Len(unique_users) : Cardinality(Range(unique_users[i][2].appsInScope)) = 1

\* the list apps in the order p gives
Permuted(apps, p) == [i \in 1..Len(apps) |-> apps[p[i]]]

\* the pairs (userId, appsInScope as a set) of a roster
PairSet(d) == { <<d[i][1], Range(d[i][2].appsInScope)>> : i \in 1..Len(d) }

\* C5: generate_unique_users_for_reenrollment applied again to the list it
\* was given returns the same map, and applied to any permutation of that
\* list returns the same set of pairs (userId, appsInScope as a set).
C5_OrderIndependentPairs ==
    pc = "done" =>
        /\ GenerateUniqueUsers(app_list) = unique_users
        /\ \A p \in Permutations(1..Len(app_list)) :
               PairSet(GenerateUniqueUsers(Permuted(app_list, p))) = PairSet(unique_users)

\* [A, B] and [B, A] give maps that differ (in the order of an appsInScope)
\* and the same pairs
C5_Witness ==
    /\ pc = "done"
    /\ Len(app_list) = 2
    /\ app_list[1].name # app_list[2].name
    /\ TargetedIds(app_list[1]) \cap TargetedIds(app_list[2]) # {}
    /\ GenerateUniqueUsers(<<app_list[2], app_list[1]>>) # unique_users

\* the targeted users of every application of apps, in the order the loops
\* of lines 158-160 visit them
RECURSIVE Occurrences(_, _)
Occurrences(apps, a) ==
    IF a > Len(apps) THEN <<>>
    ELSE apps[a].usersTargetedForReEnrollment \o Occurrences(apps, a + 1)

\* the full name the fallback order gives a profile: displayName, else
\* firstName, a space and lastName when both are there, else the login name
FallbackFullName(profile) ==
    IF DictHas(profile, "displayName") THEN DictGet(profile, "displayName")
    ELSE IF DictHas(profile, "firstName") /\ DictHas(profile, "lastName")
         THEN DictGet(profile, "firstName") \o Str_space \o DictGet(profile, "lastName")
         ELSE UserNameOf(profile)

\* C25: for every candidate profile the roster entry's userFullName is the
\* profile's displayName when present, otherwise firstName, a space and
\* lastName when both are present, otherwise the login name.
C25_FullNameFallbackOrder ==
    pc = "done" =>
        \A i \in 1..Len(unique_users) :
            \E k \in 1..Len(Occurrences(app_list, 1)) :
                LET t == Occurrences(app_list, 1)[k] IN
                /\ t.id = unique_users[i][1]
                /\ unique_users[i][2].userFullName = FallbackFullName(t.profile)

\* the last place of user id in the order of processing
LastOccurrence(apps, id) ==
    LET occ == Occurrences(apps, 1)
        k == CHOOSE n \in 1..Len(occ) :
                 /\ occ[n].id = id
                 /\ \A m \in (n + 1)..Len(occ) : occ[m].id # id
    IN  occ[k]

\* C26: when a user id occurs in the targeted lists of several applications
\* with different profile values, the roster entry's userName, userFullName,
\* userEmail and oktaVerifyExistingFactor are those computed from the last
\* occurrence processed, and appsInScope holds every application.
C26_LastWriterWins ==
    pc = "done" =>
        \A i \in 1..Len(unique_users) :
            LET t == LastOccurrence(app_list, unique_users[i][1])
                e == unique_users[i][2]
            IN  /\ e.userName = UserNameOf(t.profile)
                /\ e.userFullName = UserFullNameOf(t.profile)
                /\ e.userEmail = DictGet(t.profile, "email")
                /\ e.oktaVerifyExistingFactor = t.userPushFactorExists
                /\ Range(e.appsInScope) = AppsTargeting(app_list, unique_users[i][1])

-----------------------------------------------------------------------------
(* Claims about the paged fetchers *)

\* the records of the pages 1..n of a chain, in chain order
RECURSIVE ConcatPages(_, _)
ConcatPages(chain, n) ==
    IF n = 0 THEN <<>> ELSE ConcatPages(chain, n - 1) \o chain[n].data

\* C6: on a chain of N pages whose non-terminal pages carry a next cursor and
\* whose last page carries none, each paged fetcher issues exactly N requests,
\* one per page in chain order, and returns the concatenation of the pages in
\* that order; the terminal page ends the fetch without error.  Every chain
\* of the endpoint is such a chain: its non-terminal pages carry one of
\* NextHeaders, its last page one of TerminalHeaders.
C6_PagedFetchConcatenatesChain ==
    /\ Len(requests_log) <= Len(endpoint)
    /\ \A i \in 1..Len(requests_log) : requests_log[i].page = i
    /\ returned =>
           /\ Len(requests_log) = Len(endpoint)
           /\ \A i \in 1..Len(requests_log) : requests_log[i].outcome = "ok"
           /\ result_list = ConcatPages(endpoint, Len(endpoint))
           /\ status = "running"
    /\ ( /\ Len(requests_log) = Len(endpoint)
         /\ requests_log[Len(requests_log)].outcome = "ok" ) => returned

\* the link metadata of the page announces a next page
AnnouncesNext(h) == h.name # "none" /\ ContainsRelNext(h)

\* C30: a paged fetcher that has returned did not stop at a page whose link
\* metadata announces a next page (contains rel="next"): after such a page it
\* requests the next one or the run ends, and never returns the pages
\* fetched so far as the whole collection.
C30_NoTruncatedCollection ==
    (returned /\ status = "running") => ~AnnouncesNext(endpoint[next_page].headers)

====
